---- MODULE Spec2Model ----
(***************************************************************************)
(* sheetFmt: the template-driven rewrite engine (internal/excel/format.go  *)
(* with the Editor of internal/excel/editor.go) and the interactive        *)
(* mapping session (internal/mapping/tui.go).                              *)
(*                                                                         *)
(* Texts (cell values, header names, formulas) are sequences of            *)
(* one-character strings, so that trimming, parsing and placeholder        *)
(* substitution are computed character by character as the Go code does.   *)
(* File and sheet names are plain strings.                                 *)
(***************************************************************************)
EXTENDS Integers, Sequences, FiniteSets, TLC

(* ------------------------------ bounds --------------------------------- *)
\* most data rows below the header of a generated input sheet
MaxDataRows == 2
\* width of the cell grid of a sheet
MaxCols == 2
\* height of the cell grid: title row, header row, data rows, one inserted row
MaxRows == MaxDataRows + 3

(* ------------------------------ texts ---------------------------------- *)
ID      == <<"I", "D">>
Amount  == <<"A", "m", "t">>
CustNo  == <<"N", "o">>
CustAmt == <<"C", "A">>
Gone    == <<"G", "o">>
Title   == <<"R", "e", "p">>

Digits == <<"0", "1", "2", "3", "4", "5", "6", "7", "8", "9">>
IsDigit(ch) == \E i \in 1..10 : Digits[i] = ch
DigitVal(ch) == (CHOOSE i \in 1..10 : Digits[i] = ch) - 1

Max(S) == IF S = {} THEN 0 ELSE CHOOSE x \in S : \A y \in S : y <= x

\* fmt.Sprintf("%d", n) for n >= 0
RECURSIVE Itoa(_)
Itoa(n) == IF n < 10 THEN <<Digits[n + 1]>> ELSE Itoa(n \div 10) \o <<Digits[(n % 10) + 1]>>

\* the line feed, the tab, and the no-break space U+00A0 (one character each)
LF == "\n"
TAB == "\t"
NBSP == "nbsp"
\* unicode.IsSpace, which strings.TrimSpace uses
IsSpace(ch) == ch \in {" ", LF, TAB, NBSP}
\* strings.TrimSpace
RECURSIVE TrimLeft(_)
TrimLeft(s) == IF s # <<>> /\ IsSpace(Head(s)) THEN TrimLeft(Tail(s)) ELSE s
RECURSIVE TrimRight(_)
TrimRight(s) ==
    IF s # <<>> /\ IsSpace(s[Len(s)]) THEN TrimRight(SubSeq(s, 1, Len(s) - 1)) ELSE s
TrimSpace(s) == TrimRight(TrimLeft(s))

\* strings.ReplaceAll(s, old, new) for a one-character old
RECURSIVE ReplaceAll(_, _, _)
ReplaceAll(s, old, new) ==
    IF s = <<>> THEN <<>>
    ELSE (IF Head(s) = old THEN new ELSE <<Head(s)>>) \o ReplaceAll(Tail(s), old, new)

(* ------------------- cleanColumnName (scanner.go) ---------------------- *)
\* the class \s of the regexp package: ASCII white space only
IsRegexpSpace(ch) == ch \in {" ", LF, TAB}
\* the end of a match of <[^<>]+>, which takes innermost brackets only
htmlTagEnd_Innermost(s) ==
    LET closers == {j \in 2..Len(s) : s[j] = ">"}
        first == CHOOSE j \in closers : \A k \in closers : j <= k
    IN  IF s = <<>> \/ Head(s) # "<" \/ closers = {} THEN 0
        ELSE IF first >= 3 /\ \A k \in 2..(first - 1) : s[k] # "<" THEN first ELSE 0
\* where the match of <[^>]+> that starts at the head of s ends, 0 if there is
\* none: the class [^>] takes every character up to the next '>', line feeds
\* included, and has to take at least one
htmlTagEnd(s) ==
    LET closers == {j \in 2..Len(s) : s[j] = ">"}
        first == CHOOSE j \in closers : \A k \in closers : j <= k
    IN  IF s = <<>> \/ Head(s) # "<" \/ closers = {} THEN 0
        ELSE IF first >= 3 THEN first ELSE 0
\* htmlTagRegex.ReplaceAllString(cleaned, ""): the matches are taken from left
\* to right and do not overlap
RECURSIVE removeHtmlTags(_)
removeHtmlTags(s) ==
    IF s = <<>> THEN <<>>
    ELSE IF htmlTagEnd(s) > 0 THEN removeHtmlTags(SubSeq(s, htmlTagEnd(s) + 1, Len(s)))
    ELSE <<Head(s)>> \o removeHtmlTags(Tail(s))
\* strings.Split(s, sep) for a one-character sep
RECURSIVE Split(_, _)
Split(s, sep) ==
    LET hits == {i \in 1..Len(s) : s[i] = sep}
        first == CHOOSE i \in hits : \A k \in hits : i <= k
    IN  IF hits = {} THEN <<s>>
        ELSE <<SubSeq(s, 1, first - 1)>> \o Split(SubSeq(s, first + 1, Len(s)), sep)
\* the first line that is not empty once trimmed, trimmed; "" if there is none
RECURSIVE firstNonEmptyLine(_)
firstNonEmptyLine(lines) ==
    IF lines = <<>> THEN <<>>
    ELSE IF TrimSpace(Head(lines)) # <<>> THEN TrimSpace(Head(lines))
    ELSE firstNonEmptyLine(Tail(lines))
\* spaceRegex.ReplaceAllString(firstLine, " "): each run of \s becomes one space
RECURSIVE DropRegexpSpace(_)
DropRegexpSpace(s) ==
    IF s # <<>> /\ IsRegexpSpace(Head(s)) THEN DropRegexpSpace(Tail(s)) ELSE s
RECURSIVE replaceSpaceRuns(_)
replaceSpaceRuns(s) ==
    IF s = <<>> THEN <<>>
    ELSE IF IsRegexpSpace(Head(s)) THEN <<" ">> \o replaceSpaceRuns(DropRegexpSpace(s))
    ELSE <<Head(s)>> \o replaceSpaceRuns(Tail(s))
\* cleanColumnName cleans column names by removing HTML tags, extra
\* whitespace, and taking first line
cleanColumnName(rawName) ==
    LET cleaned == removeHtmlTags(TrimSpace(rawName))
        firstLine == firstNonEmptyLine(Split(cleaned, LF))
    IN  IF rawName = <<>> THEN <<>>
        ELSE IF firstLine = <<>> THEN <<>>
        ELSE TrimSpace(replaceSpaceRuns(firstLine))
\* longest header text of a scanned sheet
MaxHeaderLen == 6
\* the header texts a scanned sheet can hold: tags, nested and unbalanced
\* angle brackets, lines, runs of white space
HeaderChars == {"<", ">", " ", LF, NBSP, "a"}
HeaderStrings == UNION {[1..n -> HeaderChars] : n \in 0..MaxHeaderLen}

(* ------------- the mapping file as SaveToFile writes it (ai.go) -------- *)
\* A name is a text of characters; BadByte is a byte that is no UTF-8
\* encoding of a character (a Go string may hold one: ReadColumnsFromFile takes
\* the lines of a text file as they are), RuneError the character U+FFFD.
DQ == "\""
BSL == "\\"
LT == "<"
BadByte == "xE9"
RuneError == "uFFFD"

\* json.MarshalIndent writes a string between quotes: a quote and a backslash
\* with a backslash in front, a line feed as the escape n, '<' as the escape
\* u003c, an invalid byte as the escape ufffd, every other character as it is
jsonEscape(ch) ==
    CASE ch = DQ -> <<BSL, DQ>>
      [] ch = BSL -> <<BSL, BSL>>
      [] ch = LF -> <<BSL, "n">>
      [] ch = LT -> <<BSL, "u", "0", "0", "3", "c">>
      [] ch = BadByte -> <<BSL, "u", "f", "f", "f", "d">>
      [] OTHER -> <<ch>>
RECURSIVE jsonQuote(_)
jsonQuote(s) == IF s = <<>> THEN <<>> ELSE jsonEscape(Head(s)) \o jsonQuote(Tail(s))

\* json.Unmarshal reads the text between the quotes: a backslash starts an
\* escape (a quote, a backslash, n, u and four hexadecimal digits), an invalid byte
\* becomes U+FFFD
HexRune(h) ==
    CASE h = <<"0", "0", "3", "c">> -> LT
      [] h = <<"f", "f", "f", "d">> -> RuneError
      [] OTHER -> RuneError
RECURSIVE jsonUnquote(_)
jsonUnquote(t) ==
    IF t = <<>> THEN <<>>
    ELSE IF Head(t) = BSL /\ Len(t) >= 2
    THEN CASE t[2] = "n" -> <<LF>> \o jsonUnquote(SubSeq(t, 3, Len(t)))
           [] t[2] = "u" /\ Len(t) >= 6 ->
                <<HexRune(SubSeq(t, 3, 6))>> \o jsonUnquote(SubSeq(t, 7, Len(t)))
           [] OTHER -> <<t[2]>> \o jsonUnquote(SubSeq(t, 3, Len(t)))
    ELSE IF Head(t) = BadByte THEN <<RuneError>> \o jsonUnquote(Tail(t))
    ELSE <<Head(t)>> \o jsonUnquote(Tail(t))

\* the "mappings" array of the file: one object for each record, in the order
\* of the list, with the three keys of ColumnMapping
MarshalIndent(mc) ==
    [i \in 1..Len(mc) |->
        [scanned_column |-> jsonQuote(mc[i].ScannedColumn),
         target_column |-> jsonQuote(mc[i].TargetColumn),
         is_ignored |-> IF mc[i].IsIgnored THEN "true" ELSE "false"]]
Unmarshal(data) ==
    [i \in 1..Len(data) |->
        [ScannedColumn |-> jsonUnquote(data[i].scanned_column),
         TargetColumn |-> jsonUnquote(data[i].target_column),
         IsIgnored |-> data[i].is_ignored = "true"]]

\* the mapping configurations saved: names of up to MaxNameLen characters
MaxNameLen == 2
NameChars == {"a", "n", DQ, BSL, LT, BadByte}
NameStrings == UNION {[1..n -> NameChars] : n \in 0..MaxNameLen}
ColumnMappings ==
    [ScannedColumn : NameStrings, TargetColumn : {<<>>, <<"a">>, <<LT, BSL>>}, IsIgnored : BOOLEAN]
MoreMappings ==
    {[ScannedColumn |-> <<"a">>, TargetColumn |-> <<"a">>, IsIgnored |-> FALSE],
     [ScannedColumn |-> <<BSL, "n">>, TargetColumn |-> <<>>, IsIgnored |-> TRUE]}
MappingConfigs ==
    {<<>>} \cup {<<r>> : r \in ColumnMappings}
           \cup {<<r, q>> : r \in ColumnMappings, q \in MoreMappings}
           \cup {<<q, r>> : r \in ColumnMappings, q \in MoreMappings}

(* ------------------- the spreadsheet access library -------------------- *)
\* A sheet is a grid of cells; a cell has a value text, a formula text, the
\* type the value was written with and a number format (2 = "0.00").
Cells == (1..MaxRows) \X (1..MaxCols)
BlankCell == [v |-> <<>>, f |-> <<>>, kind |-> "blank", numFmt |-> 0]
BlankSheet == [rc \in Cells |-> BlankCell]

\* the sheet a file holds when its rows are the given texts
SheetOfRows(rows) ==
    [rc \in Cells |->
        IF rc[1] <= Len(rows) /\ rc[2] <= Len(rows[rc[1]]) /\ rows[rc[1]][rc[2]] # <<>>
        THEN [v |-> rows[rc[1]][rc[2]], f |-> <<>>, kind |-> "str", numFmt |-> 0]
        ELSE BlankCell]

\* excelize GetRows: the rows with value or formula cells; the blank cells in
\* the tail of each row and the blank rows in the tail of the sheet are skipped
RowWidth(sh, r) == Max({c \in 1..MaxCols : sh[<<r, c>>].v # <<>> \/ sh[<<r, c>>].f # <<>>})
GetRows(sh) ==
    LET n == Max({r \in 1..MaxRows : RowWidth(sh, r) > 0})
    IN  [r \in 1..n |-> [c \in 1..RowWidth(sh, r) |-> sh[<<r, c>>].v]]

\* Helper function to convert column index to Excel column letter
Letters == <<"A", "B", "C", "D", "E", "F", "G", "H", "I", "J", "K", "L", "M",
             "N", "O", "P", "Q", "R", "S", "T", "U", "V", "W", "X", "Y", "Z">>
RECURSIVE indexToColumnLoop(_, _)
indexToColumnLoop(index, result) ==
    IF index >= 0
    THEN indexToColumnLoop((index \div 26) - 1, <<Letters[(index % 26) + 1]>> \o result)
    ELSE result
indexToColumn(index) == indexToColumnLoop(index, <<>>)

\* excelize ColumnNameToNumber: the 1-based column of a column name
RECURSIVE ColumnNameToNumber(_)
ColumnNameToNumber(name) ==
    IF name = <<>> THEN 0
    ELSE ColumnNameToNumber(SubSeq(name, 1, Len(name) - 1)) * 26
         + (CHOOSE i \in 1..26 : Letters[i] = name[Len(name)])

\* a cell address is fmt.Sprintf("%s%d", column, row)
CellAddress(col, row) == [col |-> col, row |-> row]
Coord(addr) == <<addr.row, ColumnNameToNumber(addr.col)>>

GetCellFormula(sh, addr) == sh[Coord(addr)].f
\* excelize SetCellFormula sets the formula of the cell and keeps its cached value
SetCellFormula(sh, addr, formula) ==
    [sh EXCEPT ![Coord(addr)] = [@ EXCEPT !.f = formula]]
\* excelize SetCellValue with a string value
SetCellStr(sh, addr, text) ==
    [sh EXCEPT ![Coord(addr)] = [@ EXCEPT !.v = text, !.f = <<>>, !.kind = "str"]]

\* InsertRows inserts one blank row before startRow
InsertRows(sh, startRow) ==
    [rc \in Cells |->
        IF rc[1] < startRow THEN sh[rc]
        ELSE IF rc[1] = startRow THEN BlankCell
        ELSE sh[<<rc[1] - 1, rc[2]>>]]

(* ------------------------- numeric typing ------------------------------ *)
AllDigits(s) == s # <<>> /\ \A i \in 1..Len(s) : IsDigit(s[i])
Unsigned(s) == IF s # <<>> /\ Head(s) \in {"+", "-"} THEN Tail(s) ELSE s
IsNegative(s) == s # <<>> /\ Head(s) = "-"
\* strconv.ParseInt(s, 10, 64) succeeds (the texts here are far below 64 bits)
ParsesInt(s) == AllDigits(Unsigned(s))
\* strconv.ParseFloat(s, 64) succeeds, for texts of digits with at most one point
DotAt(s) == Max({i \in 1..Len(s) : s[i] = "."})
ParsesFloat(s) ==
    LET u == Unsigned(s)
        d == DotAt(u)
        ip == IF d = 0 THEN u ELSE SubSeq(u, 1, d - 1)
        fp == IF d = 0 THEN <<>> ELSE SubSeq(u, d + 1, Len(u))
    IN  /\ ip \o fp # <<>>
        /\ \A i \in 1..Len(ip) : IsDigit(ip[i])
        /\ \A i \in 1..Len(fp) : IsDigit(fp[i])

RECURSIVE StripLeadingZeros(_)
StripLeadingZeros(s) ==
    IF Len(s) > 1 /\ Head(s) = "0" THEN StripLeadingZeros(Tail(s)) ELSE s
RECURSIVE StripTrailingZeros(_)
StripTrailingZeros(s) ==
    IF s # <<>> /\ s[Len(s)] = "0" THEN StripTrailingZeros(SubSeq(s, 1, Len(s) - 1)) ELSE s
\* the text of the int64 the cell is given
IntText(s) ==
    LET m == StripLeadingZeros(Unsigned(s))
    IN  IF IsNegative(s) /\ m # <<"0">> THEN <<"-">> \o m ELSE m
\* the text of the float64 the cell is given
FloatText(s) ==
    LET u == Unsigned(s)
        d == DotAt(u)
        ip == StripLeadingZeros(IF d = 0 THEN u ELSE IF d = 1 THEN <<"0">> ELSE SubSeq(u, 1, d - 1))
        fp == StripTrailingZeros(IF d = 0 THEN <<>> ELSE SubSeq(u, d + 1, Len(u)))
    IN  (IF IsNegative(s) THEN <<"-">> ELSE <<>>) \o ip
        \o (IF fp = <<>> THEN <<>> ELSE <<".">> \o fp)

\* a typing that tries the floating-point parse before the integer parse
parseNumericValue_FloatFirst(value) ==
    LET trimmed == TrimSpace(value)
    IN  IF trimmed = <<>> THEN [v |-> value, kind |-> "str", isFloat |-> FALSE]
        ELSE IF ParsesFloat(trimmed)
             THEN [v |-> FloatText(trimmed), kind |-> "float", isFloat |-> TRUE]
        ELSE IF ParsesInt(trimmed)
             THEN [v |-> IntText(trimmed), kind |-> "int", isFloat |-> FALSE]
        ELSE [v |-> value, kind |-> "str", isFloat |-> FALSE]

\* parseNumericValue: the value to write, its type, and whether it is a float
parseNumericValue(value) ==
    LET trimmed == TrimSpace(value)
    IN  IF trimmed = <<>> THEN [v |-> value, kind |-> "str", isFloat |-> FALSE]
        ELSE IF ParsesInt(trimmed)
             THEN [v |-> IntText(trimmed), kind |-> "int", isFloat |-> FALSE]
        ELSE IF ParsesFloat(trimmed)
             THEN [v |-> FloatText(trimmed), kind |-> "float", isFloat |-> TRUE]
        ELSE [v |-> value, kind |-> "str", isFloat |-> FALSE]

\* applyFloatFormatting: NumFmt 2, the built-in two-decimal format
FloatNumFmt == 2

\* SetCellValueSmart sets a cell value, automatically detecting if it's a number
SetCellValueSmart(sh, addr, value) ==
    LET p == parseNumericValue(value)
    IN  [sh EXCEPT ![Coord(addr)] =
            [v |-> p.v, f |-> <<>>, kind |-> p.kind,
             numFmt |-> IF p.isFloat THEN FloatNumFmt ELSE @.numFmt]]

\* SetColumnHeader changes the header (first row) of a column
SetColumnHeader(sh, column, headerName) == SetCellStr(sh, CellAddress(column, 1), headerName)

\* a header row detection that takes a cell of white space for data
DetectHeaderRow_Untrimmed(rows) ==
    IF Len(rows) = 0 THEN 1
    ELSE LET rightmostCol == Max(UNION {{c \in 1..Len(rows[r]) : rows[r][c] # <<>>} : r \in 1..Len(rows)})
             hits == {r \in 1..Len(rows) : Len(rows[r]) >= rightmostCol /\ rows[r][rightmostCol] # <<>>}
         IN  IF rightmostCol = 0 \/ hits = {} THEN 1
             ELSE CHOOSE r \in hits : \A q \in hits : r <= q

\* DetectHeaderRow: find rightmost column with data, then the first row with
\* data in that column
RightmostData(row) == Max({c \in 1..Len(row) : TrimSpace(row[c]) # <<>>})
DetectHeaderRow(rows) ==
    IF Len(rows) = 0 THEN 1
    ELSE LET rightmostCol == Max({RightmostData(rows[r]) : r \in 1..Len(rows)})
             hits == {r \in 1..Len(rows) :
                        Len(rows[r]) >= rightmostCol /\ TrimSpace(rows[r][rightmostCol]) # <<>>}
         IN  IF rightmostCol = 0 THEN 1
             ELSE IF hits = {} THEN 1
             ELSE CHOOSE r \in hits : \A q \in hits : r <= q

\* GetColumnHeaders returns all column headers from the detected header row
GetColumnHeaders(sh) ==
    LET headerRow == DetectHeaderRow(GetRows(sh))
        rows == GetRows(sh)
    IN  IF Len(rows) < headerRow THEN <<>> ELSE rows[headerRow]

\* adjustFormulaForRow: "=An+Cn+1" becomes "=A5+C5+1" for row 5
adjustFormulaForRow(formula, targetRow) == ReplaceAll(formula, "n", Itoa(targetRow))

(* --------------------------- partial maps ------------------------------ *)
EmptyMap == [k \in {} |-> <<>>]
Put(m, k, x) == [y \in (DOMAIN m) \cup {k} |-> IF y = k THEN x ELSE m[y]]

(* ------------------------------ files ---------------------------------- *)
\* A workbook is its sheet list and its sheets.  A path is a sequence of
\* strings: the directory, then the pieces of the file name.
InputFilePath == <<"data/input", "in", ".xlsx">>
ResultsDir == "data/results"
ProblematicDir == "data/problematic"
\* filepath.Base(path)
Base(path) == Tail(path)
\* strings.TrimSuffix(inputFileName, filepath.Ext(inputFileName))
FileBase(path) == path[2]
\* fmt.Sprintf("%s-%s.xlsx", inputFileBase, sheetName) joined to data/results
OutputFilePath(path, sheetName) == <<ResultsDir, FileBase(path), "-", sheetName, ".xlsx">>
\* filepath.Join(problematicDir, filepath.Base(f.config.InputFilePath))
ProblematicPath(path) == <<ProblematicDir>> \o Base(path)

(* ------------------------------ inputs --------------------------------- *)
\* the data value an input sheet holds in column c, when the cell is filled
DataValue(c) == IF c = 1 THEN <<"7">> ELSE <<"1", ".", "5">>
\* a row as GetRows returns it: no blank cell in its tail
RowChoices(w) ==
    {row \in UNION {[1..k -> {<<>>} \cup {DataValue(c) : c \in 1..w}] : k \in 0..w} :
        /\ \A c \in 1..Len(row) : row[c] \in {<<>>, DataValue(c)}
        /\ (row # <<>> => row[Len(row)] # <<>>)}
DataChoices(w) == UNION {[1..n -> RowChoices(w)] : n \in 0..MaxDataRows}
\* data rows with every cell filled
FullDataChoices(w) == {[i \in 1..n |-> [c \in 1..w |-> DataValue(c)]] : n \in 0..MaxDataRows}
\* a cell of white space
Space == <<" ">>
\* header row alone, or a report title above the header row: one cell, or one
\* cell and a cell of white space; a sheet with no cell, or with one cell of
\* white space
InputLayouts ==
    {<<h>> \o d : h \in {<<CustNo>>}, d \in DataChoices(1)}
    \cup {<<h>> \o d : h \in {<<CustNo, CustAmt>>, <<CustAmt, CustNo>>}, d \in DataChoices(2)}
    \cup {<<<<Title>>, h>> \o d : h \in {<<CustNo, CustAmt>>}, d \in FullDataChoices(2)}
    \cup {<<<<Title, Space>>, h>> \o d : h \in {<<CustNo, CustAmt>>}, d \in FullDataChoices(2)}
    \cup {<<>>, <<<<Space>>>>}
NotesSheet == SheetOfRows(<<<<CustNo, CustAmt>>, <<DataValue(1), DataValue(2)>>>>)
InputWorkbooks ==
    {[names |-> ns,
      sheets |-> [n \in {ns[i] : i \in 1..Len(ns)} |->
                    IF n = "Main" THEN SheetOfRows(l) ELSE NotesSheet]] :
        ns \in {<<"Main">>, <<"Main", "Notes">>}, l \in InputLayouts}

\* most formula cells of a generated target sheet
MaxFormulaCells == 2
\* the formula of target row 2 (a column-wide template) and of target row 3
TemplateFormula == <<"=", "B", "n", "*", "n">>
CellFormula == <<"=", "l", "n", "(", "9", ")">>
TargetSheetOf(h, fs) ==
    [rc \in Cells |->
        IF rc[1] = 1 /\ rc[2] <= Len(h)
        THEN [v |-> h[rc[2]], f |-> <<>>, kind |-> "str", numFmt |-> 0]
        ELSE IF rc \in fs
        THEN [BlankCell EXCEPT !.f = IF rc[1] = 2 THEN TemplateFormula ELSE CellFormula]
        ELSE BlankCell]
TargetSheets ==
    UNION {{TargetSheetOf(h, fs) :
               fs \in {s \in SUBSET ({2, 3} \X (1..Len(h))) : Cardinality(s) <= MaxFormulaCells}} :
           h \in {<<ID>>, <<ID, Amount>>}}
TargetWorkbooks == {[names |-> <<"Format">>, sheets |-> [n \in {"Format"} |-> t]] : t \in TargetSheets}

Rec(s, t) == [scanned |-> s, target |-> t, ignored |-> FALSE]
Ign(s) == [scanned |-> s, target |-> <<>>, ignored |-> TRUE]
MappingChoices ==
    { <<Rec(CustNo, ID), Rec(CustAmt, Amount)>>,
      <<Rec(CustNo, ID), Ign(CustAmt)>>,
      <<Rec(CustAmt, Amount)>>,
      <<Rec(CustNo, ID), Rec(Gone, Amount), Rec(CustAmt, Amount)>>,
      <<Rec(CustNo, ID), Rec(CustAmt, Amount), Rec(Gone, Amount)>> }

(* ------------------- the mapping session (tui.go) ---------------------- *)
\* targetPerPage of initialModel
TargetPerPage == 15
\* Initialize the model with config; the write-only counter `mapped`, the
\* screen size and the styles are left out
initialModel(scannedColumns, targetColumns, uiConfig) ==
    [scannedColumns |-> scannedColumns, targetColumns |-> targetColumns,
     mappings |-> EmptyMap, ignored |-> {}, aiSuggestions |-> EmptyMap,
     state |-> "SelectScanned", currentScanned |-> <<>>, aiLoading |-> FALSE,
     page |-> 0, row |-> 0, col |-> 0,
     colsPerRow |-> uiConfig.ColumnsPerRow, rowsPerPage |-> uiConfig.RowsPerPage,
     itemsPerPage |-> uiConfig.ColumnsPerRow * uiConfig.RowsPerPage,
     targetCursor |-> 0, targetPage |-> 0, targetPerPage |-> TargetPerPage,
     total |-> Len(scannedColumns)]

getCurrentIndex(mm) == mm.page * mm.itemsPerPage + mm.row * mm.colsPerRow + mm.col
\* int(math.Ceil(float64(a) / float64(b)))
CeilDiv(a, b) == (a + b - 1) \div b
getMaxRowForCurrentPage(mm) ==
    LET startOfPage == mm.page * mm.itemsPerPage
        remainingItems == Len(mm.scannedColumns) - startOfPage
        maxRowsNeeded == CeilDiv(remainingItems, mm.colsPerRow)
    IN  IF remainingItems <= 0 THEN 0
        ELSE IF maxRowsNeeded > mm.rowsPerPage THEN mm.rowsPerPage - 1
        ELSE maxRowsNeeded - 1
getMaxColForCurrentRow(mm) ==
    LET startOfRow == mm.page * mm.itemsPerPage + mm.row * mm.colsPerRow
        endOfRow == IF startOfRow + mm.colsPerRow > Len(mm.scannedColumns)
                    THEN Len(mm.scannedColumns) ELSE startOfRow + mm.colsPerRow
    IN  (endOfRow - startOfRow) - 1
hasNextPage(mm) == (mm.page + 1) * mm.itemsPerPage < Len(mm.scannedColumns)
hasNextTargetPage(mm) == (mm.targetPage + 1) * mm.targetPerPage < Len(mm.targetColumns)
getMaxTargetCursor(mm) ==
    LET itemsOnPage == Len(mm.targetColumns) - mm.targetPage * mm.targetPerPage
    IN  IF itemsOnPage > mm.targetPerPage THEN mm.targetPerPage - 1 ELSE itemsOnPage - 1

\* page, row and col of a 0-based index
AtIndex(mm, i) ==
    [mm EXCEPT !.page = i \div mm.itemsPerPage,
               !.row = (i % mm.itemsPerPage) \div mm.colsPerRow,
               !.col = (i % mm.itemsPerPage) % mm.colsPerRow]
moveToLastValidPosition(mm) ==
    IF Len(mm.scannedColumns) = 0 THEN mm ELSE AtIndex(mm, Len(mm.scannedColumns) - 1)
adjustPosition(mm) ==
    IF getCurrentIndex(mm) >= Len(mm.scannedColumns) THEN moveToLastValidPosition(mm) ELSE mm

\* _, mapped := m.mappings[scanned]; !mapped && !m.ignored[scanned]
Unmapped(mm, scanned) == scanned \notin DOMAIN mm.mappings /\ scanned \notin mm.ignored
Least(S) == CHOOSE x \in S : \A y \in S : x <= y
\* the second loop of moveToNextUnmapped indexes scannedColumns up to the
\* current index, and goes out of range when it finds nothing below the length
moveToNextUnmappedPanics(mm) ==
    LET currentIdx == getCurrentIndex(mm)
    IN  /\ mm.itemsPerPage # 0 /\ mm.colsPerRow # 0
        /\ currentIdx > Len(mm.scannedColumns)
        /\ \A i \in 0..(Len(mm.scannedColumns) - 1) : ~Unmapped(mm, mm.scannedColumns[i + 1])
moveToNextUnmapped(mm) ==
    LET currentIdx == getCurrentIndex(mm)
        n == Len(mm.scannedColumns)
        forward == {i \in (currentIdx + 1)..(n - 1) : Unmapped(mm, mm.scannedColumns[i + 1])}
        fromStart == {i \in 0..(currentIdx - 1) : i < n /\ Unmapped(mm, mm.scannedColumns[i + 1])}
    IN  IF mm.itemsPerPage = 0 \/ mm.colsPerRow = 0 THEN mm
        ELSE IF forward # {} THEN AtIndex(mm, Least(forward))
        ELSE IF fromStart # {} THEN AtIndex(mm, Least(fromStart))
        ELSE mm

\* viewConfirm: the counts of the summary
viewConfirm(mm) ==
    LET aiCount == Cardinality(DOMAIN mm.aiSuggestions)
    IN  [Total |-> mm.total,
         Mapped |-> Cardinality(DOMAIN mm.mappings),
         AISuggestions |-> aiCount,
         Ignored |-> Cardinality(mm.ignored),
         Unmapped |-> mm.total - Cardinality(DOMAIN mm.mappings) - Cardinality(mm.ignored) - aiCount]

Remove(map, k) == [y \in (DOMAIN map) \ {k} |-> map[y]]
Result(mm, cmd) == [m |-> mm, cmd |-> cmd]

\* an ignore key that takes the mapping of a mapped column and sets no flag
toggleIgnore_Unmap(mm, scanned) ==
    IF scanned \in mm.ignored
    THEN [mm EXCEPT !.ignored = @ \ {scanned}, !.mappings = Remove(@, scanned)]
    ELSE IF scanned \in DOMAIN mm.mappings
    THEN [mm EXCEPT !.mappings = Remove(@, scanned)]
    ELSE [mm EXCEPT !.ignored = @ \cup {scanned},
                    !.aiSuggestions = Remove(@, scanned)]

\* updateSelectScanned, case "i": toggle ignore for current column
toggleIgnore(mm, scanned) ==
    IF scanned \in mm.ignored
    THEN [mm EXCEPT !.ignored = @ \ {scanned}, !.mappings = Remove(@, scanned)]
    ELSE [mm EXCEPT !.ignored = @ \cup {scanned},
                    !.mappings = Remove(@, scanned),
                    !.aiSuggestions = Remove(@, scanned)]

updateSelectScanned(mm, key) ==
    LET currentIdx == getCurrentIndex(mm)
        scanned == mm.scannedColumns[currentIdx + 1]
    IN  CASE key = "q" -> Result(mm, "Quit")
          [] key = "up" -> Result(IF mm.row > 0 THEN [mm EXCEPT !.row = @ - 1] ELSE mm, "nil")
          [] key = "down" ->
                Result(IF mm.row < getMaxRowForCurrentPage(mm) THEN [mm EXCEPT !.row = @ + 1] ELSE mm, "nil")
          [] key = "left" ->
                Result(IF mm.col > 0 THEN [mm EXCEPT !.col = @ - 1]
                       ELSE IF mm.page > 0
                       THEN adjustPosition([mm EXCEPT !.page = @ - 1, !.col = mm.colsPerRow - 1])
                       ELSE mm, "nil")
          [] key = "right" ->
                Result(IF mm.col < getMaxColForCurrentRow(mm) THEN [mm EXCEPT !.col = @ + 1]
                       ELSE IF hasNextPage(mm) THEN [mm EXCEPT !.page = @ + 1, !.col = 0, !.row = 0]
                       ELSE mm, "nil")
          [] key = "enter" ->
                IF currentIdx < Len(mm.scannedColumns)
                THEN LET g == [mm EXCEPT !.currentScanned = scanned, !.state = "SelectTarget"]
                         hits == IF scanned \in DOMAIN mm.aiSuggestions
                                 THEN {i \in 0..(Len(mm.targetColumns) - 1) :
                                         mm.targetColumns[i + 1] = mm.aiSuggestions[scanned]}
                                 ELSE {}
                     IN  Result(IF scanned \notin DOMAIN mm.aiSuggestions
                                THEN [g EXCEPT !.targetCursor = 0, !.targetPage = 0]
                                ELSE IF hits = {} THEN g
                                ELSE [g EXCEPT !.targetPage = Least(hits) \div mm.targetPerPage,
                                               !.targetCursor = Least(hits) % mm.targetPerPage],
                                "nil")
                ELSE Result(mm, "nil")
          [] key = "i" ->
                IF currentIdx < Len(mm.scannedColumns)
                THEN Result(toggleIgnore(mm, scanned), "nil")
                ELSE Result(mm, "nil")
          [] key = "a" ->
                IF ~mm.aiLoading
                      /\ \E i \in 1..Len(mm.scannedColumns) : Unmapped(mm, mm.scannedColumns[i])
                THEN Result([mm EXCEPT !.aiLoading = TRUE, !.state = "AILoading"], "generateAIMappings")
                ELSE Result(mm, "nil")
          [] key = "n" ->
                IF moveToNextUnmappedPanics(mm) THEN Result(mm, "panic")
                ELSE Result(moveToNextUnmapped(mm), "nil")
          [] key = "s" -> Result([mm EXCEPT !.state = "Confirm"], "nil")
          [] OTHER -> Result(mm, "nil")

\* a confirmation that leaves the suggestion of the column in place
mapColumns_KeepSuggestion(mm, target) ==
    [mm EXCEPT !.mappings = Put(@, mm.currentScanned, target),
               !.ignored = @ \ {mm.currentScanned},
               !.state = "SelectScanned"]

\* a confirmation that leaves the ignore flag of the column in place
mapColumns_KeepIgnored(mm, target) ==
    [mm EXCEPT !.mappings = Put(@, mm.currentScanned, target),
               !.aiSuggestions = Remove(@, mm.currentScanned),
               !.state = "SelectScanned"]

\* updateSelectTarget, case "enter": map the columns
mapColumns(mm, target) ==
    [mm EXCEPT !.mappings = Put(@, mm.currentScanned, target),
               !.ignored = @ \ {mm.currentScanned},
               !.aiSuggestions = Remove(@, mm.currentScanned),
               !.state = "SelectScanned"]

updateSelectTarget(mm, key) ==
    LET targetIdx == mm.targetPage * mm.targetPerPage + mm.targetCursor
        target == mm.targetColumns[targetIdx + 1]
        mapped == mapColumns(mm, target)
    IN  CASE key = "q" -> Result(mm, "Quit")
          [] key = "esc" -> Result([mm EXCEPT !.state = "SelectScanned"], "nil")
          [] key = "up" ->
                Result(IF mm.targetCursor > 0 THEN [mm EXCEPT !.targetCursor = @ - 1]
                       ELSE IF mm.targetPage > 0
                       THEN [mm EXCEPT !.targetPage = @ - 1, !.targetCursor = mm.targetPerPage - 1]
                       ELSE mm, "nil")
          [] key = "down" ->
                Result(IF mm.targetCursor < getMaxTargetCursor(mm) THEN [mm EXCEPT !.targetCursor = @ + 1]
                       ELSE IF hasNextTargetPage(mm) THEN [mm EXCEPT !.targetPage = @ + 1, !.targetCursor = 0]
                       ELSE mm, "nil")
          [] key = "left" -> Result(IF mm.targetPage > 0 THEN [mm EXCEPT !.targetPage = @ - 1] ELSE mm, "nil")
          [] key = "right" -> Result(IF hasNextTargetPage(mm) THEN [mm EXCEPT !.targetPage = @ + 1] ELSE mm, "nil")
          [] key = "enter" ->
                IF targetIdx < Len(mm.targetColumns)
                THEN IF moveToNextUnmappedPanics(mapped) THEN Result(mapped, "panic")
                     ELSE Result(moveToNextUnmapped(mapped), "nil")
                ELSE Result(mm, "nil")
          [] OTHER -> Result(mm, "nil")

updateConfirm(mm, key) ==
    CASE key \in {"q", "n"} -> Result(mm, "Quit")
      [] key = "y" -> Result(mm, "Quit")
      [] key = "esc" -> Result([mm EXCEPT !.state = "SelectScanned"], "nil")
      [] OTHER -> Result(mm, "nil")

updateAILoading(mm, key) ==
    CASE key = "q" -> Result(mm, "Quit")
      [] key = "esc" -> Result([mm EXCEPT !.aiLoading = FALSE, !.state = "SelectScanned"], "nil")
      [] OTHER -> Result(mm, "nil")

\* Update, case tea.KeyMsg
UpdateKey(mm, key) ==
    CASE mm.state = "SelectScanned" -> updateSelectScanned(mm, key)
      [] mm.state = "SelectTarget" -> updateSelectTarget(mm, key)
      [] mm.state = "Confirm" -> updateConfirm(mm, key)
      [] mm.state = "AILoading" -> updateAILoading(mm, key)

\* a result handler that commits the suggested pairs as mappings
UpdateAIMappings_Commit(mm, msg) ==
    [mm EXCEPT !.aiLoading = FALSE, !.state = "SelectScanned",
               !.mappings =
                   [sc \in (DOMAIN @) \cup {x \in DOMAIN msg : Unmapped(mm, x)} |->
                       IF sc \in DOMAIN msg /\ Unmapped(mm, sc) THEN msg[sc] ELSE @[sc]]]

\* Update, case aiMappingsMsg: only add AI suggestions for unmapped columns
UpdateAIMappings(mm, msg) ==
    [mm EXCEPT !.aiLoading = FALSE, !.state = "SelectScanned",
               !.aiSuggestions =
                   [sc \in (DOMAIN @) \cup {x \in DOMAIN msg : Unmapped(mm, x)} |->
                       IF sc \in DOMAIN msg /\ Unmapped(mm, sc) THEN msg[sc] ELSE @[sc]]]
\* Update, case aiErrorMsg
UpdateAIError(mm) == [mm EXCEPT !.aiLoading = FALSE, !.state = "SelectScanned"]

\* RunMappingTUI: apply existing mappings to the model
RECURSIVE applyExisting(_, _, _)
applyExisting(mm, records, i) ==
    IF i > Len(records) THEN mm
    ELSE LET mapping == records[i]
         IN  applyExisting(
                 IF mapping.ignored THEN [mm EXCEPT !.ignored = @ \cup {mapping.scanned}]
                 ELSE IF mapping.target # <<>>
                 THEN [mm EXCEPT !.mappings = Put(@, mapping.scanned, mapping.target)]
                 ELSE mm,
                 records, i + 1)
\* an auto-mapping pass that maps every exact match, whatever was loaded for it
autoMap_Overwrite(mm, i) ==
    LET exact == {mm.scannedColumns[k] : k \in i..Len(mm.scannedColumns)}
                     \cap {mm.targetColumns[j] : j \in 1..Len(mm.targetColumns)}
    IN  [mm EXCEPT !.mappings = [sc \in (DOMAIN @) \cup exact |-> IF sc \in exact THEN sc ELSE @[sc]]]

\* RunMappingTUI: auto-map exact matches between scanned and target columns
RECURSIVE autoMap(_, _)
autoMap(mm, i) ==
    IF i > Len(mm.scannedColumns) THEN mm
    ELSE LET scanned == mm.scannedColumns[i]
         IN  autoMap(IF scanned \in DOMAIN mm.mappings \/ scanned \in mm.ignored THEN mm
                     ELSE IF \E j \in 1..Len(mm.targetColumns) : mm.targetColumns[j] = scanned
                     THEN [mm EXCEPT !.mappings = Put(@, scanned, scanned)]
                     ELSE mm,
                     i + 1)

\* the orders in which a range over a Go map can visit its keys
Orders(S) == {o \in [1..Cardinality(S) -> S] : \A i, j \in 1..Cardinality(S) : o[i] = o[j] => i = j}
\* a save that also writes the pending suggestions as pairs
SavedConfigs_WithSuggestions(final) ==
    {[i \in 1..Len(mo) |-> Rec(mo[i], final.mappings[mo[i]])] \o [i \in 1..Len(io) |-> Ign(io[i])]
         \o [i \in 1..Len(so) |-> Rec(so[i], final.aiSuggestions[so[i]])] :
        mo \in Orders(DOMAIN final.mappings), io \in Orders(final.ignored),
        so \in Orders(DOMAIN final.aiSuggestions)}
\* RunMappingTUI: the record lists the save can write
SavedConfigs(final) ==
    {[i \in 1..Len(mo) |-> Rec(mo[i], final.mappings[mo[i]])] \o [i \in 1..Len(io) |-> Ign(io[i])] :
        mo \in Orders(DOMAIN final.mappings), io \in Orders(final.ignored)}

\* the observed column lists, canonical column list and grid of a session
MaxObserved == 2
ScannedChoices ==
    {l \in {<<CustNo, CustAmt>>, <<ID, CustNo>>, <<CustNo, ID, CustAmt>>,
            <<CustNo, CustAmt, Gone, ID>>} : Len(l) <= MaxObserved}
TargetColumnsFile == <<ID, Amount>>
UIConfigs == {[ColumnsPerRow |-> 1, RowsPerPage |-> 1]}
\* what a fetch can deliver: pairs for observed columns, mapped or not, and
\* for a column that is not observed
SuggestionChoices ==
    { Put(Put(Put(Put(EmptyMap, CustNo, Amount), CustAmt, ID), ID, Amount), Gone, ID),
      Put(EmptyMap, CustNo, ID) }
\* most fetches in flight
MaxFetches == 2

\* the model a session starts the program with: existing mappings applied,
\* exact matches auto-mapped, cursor moved to the next unmapped column
StartModel(scannedColumns, uiConfig, file) ==
    LET m0 == initialModel(scannedColumns, TargetColumnsFile, uiConfig)
        m1 == IF file.exists THEN applyExisting(m0, file.mappings, 1) ELSE m0
    IN  moveToNextUnmapped(autoMap(m1, 1))
\* the model after the program has handled the keys one after the other
RECURSIVE AfterKeys(_, _)
AfterKeys(mm, keys) ==
    IF keys = <<>> THEN mm ELSE AfterKeys(UpdateKey(mm, Head(keys)).m, Tail(keys))
NoMappingFile == [exists |-> FALSE, mappings |-> <<>>]
\* earlier sessions, each begun with no mapping file and saved at its end: the
\* observed columns and the keys of the operator
EarlierSessions ==
    { [scanned |-> <<CustNo, CustAmt>>, keys |-> <<"i", "s", "y">>],
      [scanned |-> <<ID, CustNo>>, keys |-> <<"enter", "down", "enter", "s", "y">>],
      [scanned |-> <<ID, CustNo>>, keys |-> <<"left", "i", "s", "y">>],
      [scanned |-> <<ID, CustNo>>, keys |-> <<"left", "enter", "down", "enter", "s", "y">>] }
\* the mapping file a session can find: none, or one an earlier session wrote
MappingFiles ==
    {NoMappingFile} \cup
    UNION { {[exists |-> TRUE, mappings |-> config] :
                config \in SavedConfigs(AfterKeys(StartModel(e.scanned, CHOOSE u \in UIConfigs : TRUE,
                                                             NoMappingFile), e.keys))} :
            e \in EarlierSessions }

(* ------------------------------ state ---------------------------------- *)
VARIABLES
    disk,        \* the files: input, target, mapping, results, problematic
    input0,      \* the input file as it was when the run began
    targetSheet, \* the configured target sheet name
    pc,          \* position in FormatFile / fileFormatter.format
    inputSheets, \* getInputSheets' result
    sheetIdx,    \* position of processAllSheets' loop
    f,           \* the fileFormatter of the current sheet
    calls,       \* the FormatFileWithTarget calls made, with what each returned
    ret,         \* what FormatFile returned
    m,                 \* the model of the running mapping session
    outputMappingFile, \* the mapping file of the sessions
    fetches,           \* the suggestion fetches that have not delivered yet
    tpc,               \* position in RunMappingTUI
    cancelled,         \* history: the fetches in flight the operator cancelled
    quitKey,           \* history: the key on which the program quit
    libPc,             \* the function a caller is in, when one is called alone
    libArg,            \* what it was called with
    libRes             \* what it returned

fmtVars == <<disk, input0, targetSheet, pc, inputSheets, sheetIdx, f, calls, ret>>
tuiVars == <<m, outputMappingFile, fetches, tpc, cancelled, quitKey>>
libVars == <<libPc, libArg, libRes>>
vars == <<disk, input0, targetSheet, pc, inputSheets, sheetIdx, f, calls, ret,
          m, outputMappingFile, fetches, tpc, cancelled, quitKey,
          libPc, libArg, libRes>>

NoModel == initialModel(<<>>, <<>>, [ColumnsPerRow |-> 0, RowsPerPage |-> 0])
\* no mapping session is run
NoSession ==
    /\ m = NoModel
    /\ outputMappingFile = NoMappingFile
    /\ fetches = 0
    /\ tpc = "off"
    /\ cancelled = 0
    /\ quitKey = "none"

\* no function is called alone
NoCall ==
    /\ libPc = "off"
    /\ libArg = <<>>
    /\ libRes = <<>>

NoFormatter ==
    [inputSheet |-> "", outputFilePath |-> <<>>, inputEditor |-> [names |-> <<>>, sheets |-> EmptyMap],
     targetToScanned |-> EmptyMap, targetHeaders |-> <<>>, inputHeaders |-> <<>>,
     inputHeaderMap |-> EmptyMap, inputRows |-> <<>>, columnFormulas |-> EmptyMap,
     inserted |-> FALSE, errorMessages |-> <<>>, col |-> 0, err |-> "nil"]

Init ==
    /\ \E wb \in InputWorkbooks, t \in TargetWorkbooks, mc \in MappingChoices :
          /\ disk = [input |-> wb, target |-> t, mapping |-> mc,
                     results |-> EmptyMap, problematic |-> EmptyMap]
          /\ input0 = wb
          \* the configured target sheet is a sheet of the target file, or is not
          /\ \/ targetSheet = "Format"
             \/ /\ targetSheet = "Absent"
                /\ t.sheets["Format"] = TargetSheetOf(<<ID, Amount>>, {})
                /\ mc = <<Rec(CustNo, ID), Rec(CustAmt, Amount)>>
    /\ pc = "FormatFile"
    /\ inputSheets = <<>>
    /\ sheetIdx = 0
    /\ f = NoFormatter
    /\ calls = <<>>
    /\ ret = "none"
    /\ NoSession
    /\ NoCall

(* ------------------- fileFormatter (format.go) ------------------------- *)
CurSheet(ff) == ff.inputEditor.sheets[ff.inputSheet]
WithSheet(ff, sh) == [ff EXCEPT !.inputEditor.sheets[ff.inputSheet] = sh]
TargetSheet == disk.target.sheets[targetSheet]

\* Create reverse mapping: target column -> scanned column
RECURSIVE reverseMapping(_, _, _)
reverseMapping(mappings, i, acc) ==
    IF i > Len(mappings) THEN acc
    ELSE LET mapping == mappings[i]
         IN  reverseMapping(mappings, i + 1,
                 IF ~mapping.ignored /\ mapping.target # <<>>
                 THEN Put(acc, mapping.target, mapping.scanned) ELSE acc)

\* Create header mapping: header -> 0-based column index
RECURSIVE headerMapping(_, _, _)
headerMapping(headers, i, acc) ==
    IF i >= Len(headers) THEN acc
    ELSE headerMapping(headers, i + 1, Put(acc, headers[i + 1], i))

\* an addError that puts the newest message first
addError_Prepend(ff, message) == [ff EXCEPT !.errorMessages = <<message>> \o @]

\* addError adds an error message to the result
addError(ff, message) == [ff EXCEPT !.errorMessages = Append(@, message)]
NoMappingMessage(ff, targetHeader) ==
    Base(InputFilePath) \o <<":", ff.inputSheet, ":: no mapping for '">> \o targetHeader \o <<"'">>
NotFoundMessage(ff, scannedColumn) ==
    Base(InputFilePath) \o <<":", ff.inputSheet, ":: mapped column '">> \o scannedColumn
        \o <<"' not found in input">>

\* detectColumnFormulas finds column formulas in target row 2
RECURSIVE detectColumnFormulas(_, _, _)
detectColumnFormulas(targetHeaders, targetColIndex, acc) ==
    IF targetColIndex >= Len(targetHeaders) THEN acc
    ELSE LET targetColLetter == indexToColumn(targetColIndex)
             formula == GetCellFormula(TargetSheet, CellAddress(targetColLetter, 2))
         IN  detectColumnFormulas(targetHeaders, targetColIndex + 1,
                 IF formula # <<>> THEN Put(acc, targetColLetter, formula) ELSE acc)

\* hasExistingData checks if there's existing data beyond the header
hasExistingData(ff) ==
    LET originalDataRowCount == IF Len(ff.inputRows) > 0 THEN Len(ff.inputRows) - 1 ELSE 0
    IN  originalDataRowCount > 0

\* insertRowForFormulas inserts a row at row 2 and re-reads the input rows
insertRowForFormulas(ff) ==
    LET sh == InsertRows(CurSheet(ff), 2)
    IN  [WithSheet(ff, sh) EXCEPT !.inputRows = GetRows(sh), !.inserted = TRUE]

\* applyColumnFormula applies column formula to all data rows
RECURSIVE applyColumnFormulaLoop(_, _, _, _, _)
applyColumnFormulaLoop(sh, targetColLetter, formula, rowIndex, n) ==
    IF rowIndex < n
    THEN applyColumnFormulaLoop(
             SetCellFormula(sh, CellAddress(targetColLetter, rowIndex),
                            adjustFormulaForRow(formula, rowIndex)),
             targetColLetter, formula, rowIndex + 1, n)
    ELSE sh
applyColumnFormula(ff, targetColLetter, formula) ==
    WithSheet(ff, applyColumnFormulaLoop(CurSheet(ff), targetColLetter, formula, 2, Len(ff.inputRows)))

\* a processCellMapping that prefers the input value to the target formula
processCellMapping_DataFirst(ff, sh, cellAddress, rowIndex, inputColIndex) ==
    LET targetFormula == GetCellFormula(TargetSheet, cellAddress)
    IN  IF inputColIndex < Len(ff.inputRows[rowIndex + 1])
        THEN SetCellValueSmart(sh, cellAddress, ff.inputRows[rowIndex + 1][inputColIndex + 1])
        ELSE IF targetFormula # <<>>
        THEN SetCellFormula(sh, cellAddress, targetFormula)
        ELSE sh

\* processCellMapping handles mapping for a single cell
processCellMapping(ff, sh, cellAddress, rowIndex, inputColIndex) ==
    LET targetFormula == GetCellFormula(TargetSheet, cellAddress)
    IN  IF targetFormula # <<>>
        THEN SetCellFormula(sh, cellAddress, targetFormula)
        ELSE IF inputColIndex < Len(ff.inputRows[rowIndex + 1])
        THEN SetCellValueSmart(sh, cellAddress, ff.inputRows[rowIndex + 1][inputColIndex + 1])
        ELSE sh

\* Copy data from input column to target column
RECURSIVE copyColumnLoop(_, _, _, _, _)
copyColumnLoop(ff, sh, targetColLetter, inputColIndex, rowIndex) ==
    IF rowIndex < Len(ff.inputRows)
    THEN copyColumnLoop(ff,
             processCellMapping(ff, sh, CellAddress(targetColLetter, rowIndex + 1),
                                rowIndex, inputColIndex),
             targetColLetter, inputColIndex, rowIndex + 1)
    ELSE sh

\* processColumnWithMapping processes a column that has a mapping
processColumnWithMapping(ff, targetColLetter, scannedColumn) ==
    IF scannedColumn \notin DOMAIN ff.inputHeaderMap
    THEN addError(ff, NotFoundMessage(ff, scannedColumn))
    ELSE WithSheet(ff, copyColumnLoop(ff, CurSheet(ff), targetColLetter,
                                      ff.inputHeaderMap[scannedColumn], 1))

\* copyFormulasOnly copies formulas from target format when no mapping exists
RECURSIVE copyFormulasOnlyLoop(_, _, _, _)
copyFormulasOnlyLoop(sh, targetColLetter, rowIndex, n) ==
    IF rowIndex < n
    THEN LET cellAddress == CellAddress(targetColLetter, rowIndex + 1)
             targetFormula == GetCellFormula(TargetSheet, cellAddress)
         IN  copyFormulasOnlyLoop(
                 IF targetFormula # <<>> THEN SetCellFormula(sh, cellAddress, targetFormula) ELSE sh,
                 targetColLetter, rowIndex + 1, n)
    ELSE sh
copyFormulasOnly(ff, targetColLetter) ==
    WithSheet(ff, copyFormulasOnlyLoop(CurSheet(ff), targetColLetter, 1, Len(ff.inputRows)))

\* processColumnMapping handles mapping and data copying for a column
processColumnMapping(ff, targetHeader, targetColLetter) ==
    IF targetHeader \in DOMAIN ff.targetToScanned
    THEN processColumnWithMapping(ff, targetColLetter, ff.targetToScanned[targetHeader])
    ELSE addError(copyFormulasOnly(ff, targetColLetter), NoMappingMessage(ff, targetHeader))

\* processTargetColumn processes a single target column
processTargetColumn(ff, targetHeader, targetColLetter) ==
    LET g == WithSheet(ff, SetColumnHeader(CurSheet(ff), targetColLetter, targetHeader))
    IN  IF targetColLetter \in DOMAIN g.columnFormulas
        THEN applyColumnFormula(g, targetColLetter, g.columnFormulas[targetColLetter])
        ELSE processColumnMapping(g, targetHeader, targetColLetter)

(* ------------------------------ actions -------------------------------- *)
\* FormatFile up to the call of processAllSheets
FormatFile ==
    /\ pc = "FormatFile"
    /\ inputSheets' = disk.input.names
    /\ sheetIdx' = 1
    /\ pc' = "processAllSheets"
    /\ UNCHANGED <<disk, input0, targetSheet, f, calls, ret>>
    /\ UNCHANGED <<tuiVars, libVars>>

\* processAllSheets calls FormatFileWithTarget for the next sheet; format()
\* begins with initialize, which opens the target and the input file
Initialize ==
    /\ pc = "processAllSheets"
    /\ sheetIdx <= Len(inputSheets)
    /\ f' = [NoFormatter EXCEPT !.inputSheet = inputSheets[sheetIdx],
                                !.outputFilePath = OutputFilePath(InputFilePath, inputSheets[sheetIdx]),
                                !.inputEditor = disk.input]
    /\ pc' = "loadMappingAndHeaders"
    /\ UNCHANGED <<disk, input0, targetSheet, inputSheets, sheetIdx, calls, ret>>
    /\ UNCHANGED <<tuiVars, libVars>>

\* loadMappingAndHeaders loads mapping configuration and column headers
LoadMappingAndHeaders ==
    /\ pc = "loadMappingAndHeaders"
    /\ IF \A i \in 1..Len(disk.target.names) : disk.target.names[i] # targetSheet
       THEN /\ f' = [f EXCEPT !.err = "failed to get target headers"]
            /\ pc' = "return"
       ELSE /\ f' = [f EXCEPT
                        !.targetToScanned = reverseMapping(disk.mapping, 1, EmptyMap),
                        !.targetHeaders = GetColumnHeaders(TargetSheet),
                        !.inputHeaders = GetColumnHeaders(CurSheet(f)),
                        !.inputHeaderMap = headerMapping(GetColumnHeaders(CurSheet(f)), 0, EmptyMap)]
            /\ pc' = "prepareDataAndFormulas"
    /\ UNCHANGED <<disk, input0, targetSheet, inputSheets, sheetIdx, calls, ret>>
    /\ UNCHANGED <<tuiVars, libVars>>

\* prepareDataAndFormulas loads input data and processes column formulas
PrepareDataAndFormulas ==
    /\ pc = "prepareDataAndFormulas"
    /\ LET g == [f EXCEPT !.inputRows = GetRows(CurSheet(f)),
                          !.columnFormulas = detectColumnFormulas(f.targetHeaders, 0, EmptyMap)]
           hasColumnFormulas == DOMAIN g.columnFormulas # {}
       IN  f' = IF hasColumnFormulas /\ hasExistingData(g) THEN insertRowForFormulas(g) ELSE g
    /\ pc' = "processAllColumns"
    /\ UNCHANGED <<disk, input0, targetSheet, inputSheets, sheetIdx, calls, ret>>
    /\ UNCHANGED <<tuiVars, libVars>>

\* processAllColumns: one target column, left to right
ProcessTargetColumn ==
    /\ pc = "processAllColumns"
    /\ f.col < Len(f.targetHeaders)
    /\ f' = [processTargetColumn(f, f.targetHeaders[f.col + 1], indexToColumn(f.col))
                EXCEPT !.col = f.col + 1]
    /\ UNCHANGED <<disk, input0, targetSheet, pc, inputSheets, sheetIdx, calls, ret>>
    /\ UNCHANGED <<tuiVars, libVars>>

\* copyToProblematicDirectory copies the file at the input path
copyToProblematicDirectory(d) ==
    [d EXCEPT !.problematic = Put(@, ProblematicPath(InputFilePath), d.input)]

\* a saveFormattedFile that saves before it looks at the recorded errors
saveFormattedFile_SaveFirst(d, ff) ==
    LET saved == [d EXCEPT !.results = Put(@, ff.outputFilePath, ff.inputEditor)]
    IN  IF Len(ff.errorMessages) > 0 THEN copyToProblematicDirectory(saved) ELSE saved

\* saveFormattedFile saves the formatted file, or handles the formatting error
saveFormattedFile(d, ff) ==
    IF Len(ff.errorMessages) > 0
    THEN copyToProblematicDirectory(d)
    ELSE [d EXCEPT !.results = Put(@, ff.outputFilePath, ff.inputEditor)]

SaveFormattedFile ==
    /\ pc = "processAllColumns"
    /\ f.col >= Len(f.targetHeaders)
    /\ disk' = saveFormattedFile(disk, f)
    /\ f' = [f EXCEPT !.err = IF Len(f.errorMessages) > 0 THEN "formatting failed" ELSE "nil"]
    /\ pc' = "return"
    /\ UNCHANGED <<input0, targetSheet, inputSheets, sheetIdx, calls, ret>>
    /\ UNCHANGED <<tuiVars, libVars>>

\* a processAllSheets that gives up at the first sheet that failed
NextSheet_StopOnError ==
    /\ pc = "return"
    /\ calls' = Append(calls, [inputSheet |-> f.inputSheet, outputFilePath |-> f.outputFilePath,
                               err |-> f.err])
    /\ sheetIdx' = IF f.err # "nil" THEN Len(inputSheets) + 1 ELSE sheetIdx + 1
    /\ pc' = "processAllSheets"
    /\ UNCHANGED <<disk, input0, targetSheet, inputSheets, f, ret>>
    /\ UNCHANGED <<tuiVars, libVars>>

\* processAllSheets: FormatFileWithTarget has returned; go on to the next sheet
NextSheet ==
    /\ pc = "return"
    /\ calls' = Append(calls, [inputSheet |-> f.inputSheet, outputFilePath |-> f.outputFilePath,
                               err |-> f.err])
    /\ sheetIdx' = sheetIdx + 1
    /\ pc' = "processAllSheets"
    /\ UNCHANGED <<disk, input0, targetSheet, inputSheets, f, ret>>
    /\ UNCHANGED <<tuiVars, libVars>>

\* processAllSheets returns nil after the last sheet, and FormatFile with it
FormatFileReturn ==
    /\ pc = "processAllSheets"
    /\ sheetIdx > Len(inputSheets)
    /\ ret' = "nil"
    /\ pc' = "done"
    /\ UNCHANGED <<disk, input0, targetSheet, inputSheets, sheetIdx, f, calls>>
    /\ UNCHANGED <<tuiVars, libVars>>

Next ==
    \/ FormatFile
    \/ Initialize
    \/ LoadMappingAndHeaders
    \/ PrepareDataAndFormulas
    \/ ProcessTargetColumn
    \/ SaveFormattedFile
    \/ NextSheet
    \/ FormatFileReturn

Spec == Init /\ [][Next]_vars

(* ----------------------- RunMappingTUI (tui.go) ------------------------ *)
\* no file is formatted
NoFormat ==
    /\ disk = [input |-> [names |-> <<>>, sheets |-> EmptyMap],
               target |-> [names |-> <<>>, sheets |-> EmptyMap],
               mapping |-> <<>>, results |-> EmptyMap, problematic |-> EmptyMap]
    /\ input0 = [names |-> <<>>, sheets |-> EmptyMap]
    /\ targetSheet = "Format"
    /\ pc = "off"
    /\ inputSheets = <<>>
    /\ sheetIdx = 0
    /\ f = NoFormatter
    /\ calls = <<>>
    /\ ret = "none"

InitSession ==
    /\ NoFormat
    /\ NoCall
    /\ m = NoModel
    /\ outputMappingFile \in MappingFiles
    /\ fetches = 0
    /\ tpc = "idle"
    /\ cancelled = 0
    /\ quitKey = "none"

\* RunMappingTUI up to the start of the program: read the column files, load
\* the existing mappings, auto-map, move to the first unmapped column
StartSession ==
    /\ tpc = "idle"
    /\ \E scannedColumns \in ScannedChoices, uiConfig \in UIConfigs :
          m' = StartModel(scannedColumns, uiConfig, outputMappingFile)
    /\ fetches' = 0
    /\ tpc' = "running"
    /\ UNCHANGED <<outputMappingFile, cancelled, quitKey>>
    /\ UNCHANGED <<fmtVars, libVars>>

\* the program hands a key event to Update and runs the command it returns
Key(key) ==
    /\ tpc = "running"
    /\ LET r == UpdateKey(m, key)
       IN  /\ r.cmd = "generateAIMappings" => fetches < MaxFetches
           /\ m' = r.m
           /\ fetches' = IF r.cmd = "generateAIMappings" THEN fetches + 1 ELSE fetches
           /\ tpc' = CASE r.cmd = "Quit" -> "quit"
                       [] r.cmd = "panic" -> "panic"
                       [] OTHER -> "running"
           /\ quitKey' = IF r.cmd = "Quit" THEN key ELSE quitKey
    \* escape in stateAILoading gives up the fetch that was started last
    /\ cancelled' = IF m.state = "AILoading" /\ key = "esc" THEN cancelled + 1 ELSE cancelled
    /\ UNCHANGED outputMappingFile
    /\ UNCHANGED <<fmtVars, libVars>>
KeyUp == Key("up")
KeyDown == Key("down")
KeyLeft == Key("left")
KeyRight == Key("right")
KeyEnter == Key("enter")
KeyIgnore == Key("i")
KeyAI == Key("a")
KeyNext == Key("n")
KeySave == Key("s")
KeyEsc == Key("esc")
KeyQuit == Key("q")
KeyYes == Key("y")

\* a fetch delivers its suggestions
DeliverAIMappings ==
    /\ tpc = "running"
    /\ fetches > 0
    /\ \E msg \in SuggestionChoices : m' = UpdateAIMappings(m, msg)
    /\ fetches' = fetches - 1
    \* the fetch that delivers is one the operator cancelled, or one still awaited
    /\ \/ cancelled > 0 /\ cancelled' = cancelled - 1
       \/ fetches > cancelled /\ cancelled' = cancelled
    /\ UNCHANGED <<outputMappingFile, tpc, quitKey>>
    /\ UNCHANGED <<fmtVars, libVars>>

\* a fetch delivers an error
DeliverAIError ==
    /\ tpc = "running"
    /\ fetches > 0
    /\ m' = UpdateAIError(m)
    /\ fetches' = fetches - 1
    \* the fetch that delivers is one the operator cancelled, or one still awaited
    /\ \/ cancelled > 0 /\ cancelled' = cancelled - 1
       \/ fetches > cancelled /\ cancelled' = cancelled
    /\ UNCHANGED <<outputMappingFile, tpc, quitKey>>
    /\ UNCHANGED <<fmtVars, libVars>>

\* RunMappingTUI after the program has ended: save if the final state is
\* stateConfirm
Finish ==
    /\ tpc = "quit"
    /\ IF m.state = "Confirm"
       THEN \E config \in SavedConfigs(m) :
                outputMappingFile' = [exists |-> TRUE, mappings |-> config]
       ELSE UNCHANGED outputMappingFile
    /\ tpc' = "returned"
    /\ fetches' = 0
    /\ cancelled' = 0
    /\ UNCHANGED <<m, quitKey>>
    /\ UNCHANGED <<fmtVars, libVars>>

NextSession ==
    \/ StartSession
    \/ KeyUp
    \/ KeyDown
    \/ KeyLeft
    \/ KeyRight
    \/ KeyEnter
    \/ KeyIgnore
    \/ KeyAI
    \/ KeyNext
    \/ KeySave
    \/ KeyEsc
    \/ KeyQuit
    \/ KeyYes
    \/ DeliverAIMappings
    \/ DeliverAIError
    \/ Finish

SpecSession == InitSession /\ [][NextSession]_vars

(* --------- a session over more observed columns than one grid row ------ *)
\* four observed columns on a grid of three columns and two rows: the second
\* row of the page has one column and two empty places
GridColumns == <<CustNo, CustAmt, Gone, ID>>
GridConfig == [ColumnsPerRow |-> 3, RowsPerPage |-> 2]
StartGridSession ==
    /\ tpc = "idle"
    /\ m' = StartModel(GridColumns, GridConfig, outputMappingFile)
    /\ fetches' = 0
    /\ tpc' = "running"
    /\ UNCHANGED <<outputMappingFile, cancelled, quitKey>>
    /\ UNCHANGED <<fmtVars, libVars>>
NextGrid ==
    \/ StartGridSession
    \/ KeyUp
    \/ KeyDown
    \/ KeyLeft
    \/ KeyRight
    \/ KeyEnter
    \/ KeyIgnore
    \/ KeyNext
SpecGrid == InitSession /\ [][NextGrid]_vars

(* ------------------- functions called on their own --------------------- *)
\* the copied input values and the cells they are written to: a cell never
\* written, a text cell, and a cell that already has the two-decimal format
MaxCellLen == 4
CellChars == {"1", "0", ".", "-", "+", " ", "a"}
CellTexts == UNION {[1..n -> CellChars] : n \in 0..MaxCellLen}
PriorCells ==
    {BlankCell,
     [v |-> <<"a">>, f |-> <<>>, kind |-> "str", numFmt |-> 0],
     [v |-> <<"1", ".", "5">>, f |-> <<>>, kind |-> "float", numFmt |-> FloatNumFmt]}
FirstCell == CellAddress(indexToColumn(0), 1)

InitCalls ==
    /\ NoFormat
    /\ NoSession
    /\ libRes = <<>>
    /\ \/ libPc = "cleanColumnName" /\ libArg \in HeaderStrings
       \/ libPc = "SaveToFile" /\ libArg \in MappingConfigs
       \/ libPc = "SetCellValueSmart" /\ libArg \in [cell : PriorCells, value : CellTexts]

\* scanFileColumns cleans a header
CleanColumnName ==
    /\ libPc = "cleanColumnName"
    /\ libRes' = cleanColumnName(libArg)
    /\ libPc' = "cleaned"
    /\ UNCHANGED <<libArg, fmtVars, tuiVars>>

\* SaveToFile saves the mapping configuration to a JSON file
SaveToFile ==
    /\ libPc = "SaveToFile"
    /\ libRes' = MarshalIndent(libArg)
    /\ libPc' = "saved"
    /\ UNCHANGED <<libArg, fmtVars, tuiVars>>

\* LoadFromFile loads mapping configuration from a JSON file
LoadFromFile ==
    /\ libPc = "saved"
    /\ libRes' = Unmarshal(libRes)
    /\ libPc' = "loaded"
    /\ UNCHANGED <<libArg, fmtVars, tuiVars>>

\* SetCellValueSmart on one cell of a sheet
SetCellValueSmartCall ==
    /\ libPc = "SetCellValueSmart"
    /\ libRes' = SetCellValueSmart([BlankSheet EXCEPT ![Coord(FirstCell)] = libArg.cell],
                                   FirstCell, libArg.value)[Coord(FirstCell)]
    /\ libPc' = "set"
    /\ UNCHANGED <<libArg, fmtVars, tuiVars>>

NextCalls ==
    \/ SetCellValueSmartCall
    \/ CleanColumnName
    \/ SaveToFile
    \/ LoadFromFile

SpecCalls == InitCalls /\ [][NextCalls]_vars

(* ---------------- what a rewrite is expected to have done --------------- *)
SeqRange(s) == {s[i] : i \in 1..Len(s)}
HardError == "failed to get target headers"
\* the rewrite of the current sheet has gone through every target column
Rewritten == pc = "return" /\ f.err # HardError
\* the rewrite of the current sheet has loaded its headers and rows
Prepared == pc \in {"processAllColumns", "return"} /\ f.err # HardError

\* the job's sheet as the input file holds it, its rows, header row, data rows
JobInputSheet == input0.sheets[f.inputSheet]
InputRowsRead == GetRows(JobInputSheet)
InputHeaderRow == DetectHeaderRow(InputRowsRead)
InputHeaderTexts == IF Len(InputRowsRead) < InputHeaderRow THEN <<>> ELSE InputRowsRead[InputHeaderRow]
DataRowsIn == (InputHeaderRow + 1)..Len(InputRowsRead)
InputValueAt(k, c) == IF c <= Len(InputRowsRead[k]) THEN InputRowsRead[k][c] ELSE <<>>
\* the row of the rewritten sheet that holds row k of the input sheet
OutRow(k) == IF f.inserted /\ k >= 2 THEN k + 1 ELSE k
\* the cell the rewritten sheet had at a coordinate before any column was written
OrigCell(r, c) == IF f.inserted THEN InsertRows(JobInputSheet, 2)[<<r, c>>] ELSE JobInputSheet[<<r, c>>]
OutCell(r, c) == CurSheet(f)[<<r, c>>]

\* the target layout
TargetColumns == {i \in 1..MaxCols : TargetSheet[<<1, i>>].v # <<>>}
TargetHeaderAt(i) == TargetSheet[<<1, i>>].v
HasTemplate(i) == TargetSheet[<<2, i>>].f # <<>>
TargetFormulaAt(r, i) == TargetSheet[<<r, i>>].f

\* the mapping store read as an inverse map: the last record for a target wins
RecordsFor(h) == {i \in 1..Len(disk.mapping) :
                    ~disk.mapping[i].ignored /\ disk.mapping[i].target = h}
IsMapped(h) == RecordsFor(h) # {}
MappedObserved(h) == disk.mapping[Max(RecordsFor(h))].scanned
IsPresent(h) == IsMapped(h) /\ MappedObserved(h) \in SeqRange(InputHeaderTexts)
InputColumnOf(h) == CHOOSE c \in 1..Len(InputHeaderTexts) : InputHeaderTexts[c] = MappedObserved(h)

(* ------------------------------ C1 ------------------------------------- *)
\* C1: when a sheet's rewrite has recorded a soft error, no output file exists
\* for that job, the input file is as it was, the quarantine directory holds a
\* copy under the input's base name that equals the input file, and the rewrite
\* returned a failure.
C1_QuarantineOnSoftError ==
    (pc = "return" /\ f.errorMessages # <<>>) =>
        /\ f.outputFilePath \notin DOMAIN disk.results
        /\ disk.input = input0
        /\ ProblematicPath(InputFilePath) \in DOMAIN disk.problematic
        /\ disk.problematic[ProblematicPath(InputFilePath)] = input0
        /\ f.err \notin {"nil", "none"}
\* a rewrite that changed the sheet in memory and then failed softly
C1_Witness ==
    /\ pc = "return"
    /\ f.errorMessages # <<>>
    /\ f.inputEditor # input0

(* ------------------------------ C2 ------------------------------------- *)
\* C2: the file a completed rewrite saves is a populated copy of the target
\* template: it has the target's sheets and none of the input workbook's other
\* sheets, its header texts are the target's in the target's order, and no
\* input column outside the target's column range is in it.
C2_OutputIsPopulatedTemplate ==
    (pc = "return" /\ f.err = "nil") =>
        LET out == disk.results[f.outputFilePath]
            written == out.sheets[f.inputSheet]
        IN  /\ \A i \in 1..Len(out.names) :
                    out.names[i] \in SeqRange(input0.names) => out.names[i] = f.inputSheet
            /\ \A i \in TargetColumns : written[<<1, i>>].v = TargetHeaderAt(i)
            /\ \A r \in 1..MaxRows, c \in 1..MaxCols :
                    c \notin TargetColumns => written[<<r, c>>] = BlankCell

(* ------------------------------ C3 ------------------------------------- *)
\* C3: the soft errors of a rewrite are one entry for each target column that
\* has no column-wide template and is unmapped or mapped to an observed column
\* the input lacks, in left-to-right target column order, and nothing else.
ExpectedError(i) ==
    LET h == TargetHeaderAt(i)
    IN  IF HasTemplate(i) THEN <<>>
        ELSE IF ~IsMapped(h)
        THEN << <<"in", ".xlsx", ":", f.inputSheet, ":: no mapping for '">> \o h \o <<"'">> >>
        ELSE IF ~IsPresent(h)
        THEN << <<"in", ".xlsx", ":", f.inputSheet, ":: mapped column '">> \o MappedObserved(h)
                    \o <<"' not found in input">> >>
        ELSE <<>>
RECURSIVE ExpectedErrors(_)
ExpectedErrors(n) == IF n = 0 THEN <<>> ELSE ExpectedErrors(n - 1) \o ExpectedError(n)
C3_SoftErrorsPerColumn ==
    Prepared => f.errorMessages = ExpectedErrors(f.col)
\* both kinds of entry in one rewrite: an unmapped column, then a column whose
\* mapped observed column the input lacks
C3_Witness ==
    /\ Rewritten
    /\ Len(f.errorMessages) = 2
    /\ ~IsMapped(TargetHeaderAt(1))
    /\ IsMapped(TargetHeaderAt(2)) /\ ~IsPresent(TargetHeaderAt(2))

(* ------------------------------ C4 ------------------------------------- *)
\* C4: in a target column mapped to an observed column the input has, every
\* data cell with no target formula holds the input's value of the mapped
\* column at that row, and is empty when that input cell is empty or the input
\* row ends before the mapped column; it never holds another column's value.
C4_MappedCellsHoldMappedValue ==
    Rewritten =>
        \A i \in TargetColumns :
            (~HasTemplate(i) /\ IsPresent(TargetHeaderAt(i))) =>
                \A k \in DataRowsIn :
                    TargetFormulaAt(OutRow(k), i) = <<>> =>
                        OutCell(OutRow(k), i).v = InputValueAt(k, InputColumnOf(TargetHeaderAt(i)))

(* ------------------------------ C5 ------------------------------------- *)
\* C5: in a target column with a column-wide template, the rows that hold a
\* copied input data row, and only those rows, have the template with the row
\* placeholder replaced by the row's own number, and no input data is copied
\* into the column.
C5_TemplateOnEveryDataRow ==
    Rewritten =>
        \A i \in TargetColumns :
            HasTemplate(i) =>
                \A r \in 2..MaxRows :
                    /\ OutCell(r, i).f =
                          IF r \in {OutRow(k) : k \in DataRowsIn}
                          THEN ReplaceAll(TargetFormulaAt(2, i), "n", Itoa(r))
                          ELSE OrigCell(r, i).f
                    /\ OutCell(r, i).v = OrigCell(r, i).v
                    /\ OutCell(r, i).kind = OrigCell(r, i).kind

(* ------------------------------ C6 ------------------------------------- *)
\* the data cells of mapped columns the input has: where the target has a
\* formula at the cell's coordinates the cell holds that formula verbatim and
\* no input value was written there
FormulaWinsIn(columns) ==
    \A i \in columns :
        IsPresent(TargetHeaderAt(i)) =>
            \A k \in DataRowsIn :
                LET r == OutRow(k)
                IN  TargetFormulaAt(r, i) # <<>> =>
                        /\ OutCell(r, i).f = TargetFormulaAt(r, i)
                        /\ OutCell(r, i).v = OrigCell(r, i).v
                        /\ OutCell(r, i).kind = OrigCell(r, i).kind
\* C6 as stated: in every target column mapped to an observed column the input
\* has, a per-cell target formula at a data cell's coordinates is written
\* verbatim in place of the input value.
C6_FormulaWinsInEveryMappedColumn == Rewritten => FormulaWinsIn(TargetColumns)
\* C6 amended: the same, for the mapped columns that have no column-wide
\* template; a column with a template gets the adjusted template on its rows.
C6_FormulaWinsWithoutTemplate ==
    Rewritten => FormulaWinsIn({i \in TargetColumns : ~HasTemplate(i)})
\* a data cell whose mapped input cell is filled and whose coordinates hold a
\* target formula, in a column with no template
C6_Witness ==
    /\ Rewritten
    /\ \E i \in TargetColumns, k \in DataRowsIn :
          /\ ~HasTemplate(i)
          /\ IsPresent(TargetHeaderAt(i))
          /\ TargetFormulaAt(OutRow(k), i) # <<>>
          /\ InputValueAt(k, InputColumnOf(TargetHeaderAt(i))) # <<>>
          /\ OutCell(OutRow(k), i).f = TargetFormulaAt(OutRow(k), i)

(* ------------------------------ C7 ------------------------------------- *)
\* C7: a target column mapped to an observed column the input lacks still has
\* every per-cell target formula of its data-row coordinates copied, as an
\* unmapped column has.
C7_AbsentColumnKeepsFormulas ==
    Rewritten =>
        \A i \in TargetColumns :
            (~HasTemplate(i) /\ IsMapped(TargetHeaderAt(i)) /\ ~IsPresent(TargetHeaderAt(i))) =>
                \A k \in DataRowsIn :
                    TargetFormulaAt(OutRow(k), i) # <<>> =>
                        OutCell(OutRow(k), i).f = TargetFormulaAt(OutRow(k), i)

(* ------------------------------ C8 ------------------------------------- *)
\* C8: one blank row is inserted directly below the input header exactly when
\* a target column has a template and the input has a data row; the data rows
\* are then the input's, one row lower, and stay so through the template writes.
C8_BlankRowBelowHeader ==
    Prepared =>
        f.inputRows =
            IF (\E i \in TargetColumns : HasTemplate(i)) /\ DataRowsIn # {}
            THEN SubSeq(InputRowsRead, 1, InputHeaderRow) \o << <<>> >>
                    \o SubSeq(InputRowsRead, InputHeaderRow + 1, Len(InputRowsRead))
            ELSE InputRowsRead

(* ------------------------------ C9 ------------------------------------- *)
\* C9: FormatFile on an input of N sheets makes N rewrite attempts, one per
\* sheet in sheet order, each with the output path <inputBase>-<sheetName>.xlsx
\* in the results directory; an attempt that fails does not stop the later ones.
C9_OneAttemptPerSheet ==
    /\ Len(calls) <= Len(input0.names)
    /\ \A i \in 1..Len(calls) :
          /\ calls[i].inputSheet = input0.names[i]
          /\ calls[i].outputFilePath = <<"data/results", "in", "-", input0.names[i], ".xlsx">>
    /\ (pc = "done" => Len(calls) = Len(input0.names))
\* two sheets, the first attempt failed and the second was made
C9_Witness ==
    /\ pc = "done"
    /\ Len(calls) = 2
    /\ calls[1].err # "nil"

(* ------------------------------ C10 ------------------------------------ *)
\* C10: in every state of a mapping session begun with no mapping file or with
\* a file an earlier session wrote, whatever keys and suggestion messages have
\* been handled, no column is both in the mapped set and in the ignored set,
\* and the mapping file has no column with both a mapping and an ignore record.
C10_NeverMappedAndIgnored ==
    /\ \A sc \in DOMAIN m.mappings : sc \notin m.ignored
    /\ \A i, j \in 1..Len(outputMappingFile.mappings) :
          ~(/\ outputMappingFile.mappings[i].scanned = outputMappingFile.mappings[j].scanned
            /\ ~outputMappingFile.mappings[i].ignored
            /\ outputMappingFile.mappings[j].ignored)
\* a session that loaded ID as mapped and CustNo as mapped, in which ID has
\* been ignored by the operator and a delivered suggestion is pending
C10_Witness ==
    /\ tpc = "running"
    /\ m.scannedColumns = <<ID, CustNo>>
    /\ \E i \in 1..Len(outputMappingFile.mappings) :
          outputMappingFile.mappings[i] = Rec(ID, ID)
    /\ ID \in m.ignored
    /\ CustNo \in DOMAIN m.mappings
    /\ DOMAIN m.aiSuggestions # {}

(* ------------------------------ C11 ------------------------------------ *)
\* what the mapping file holds for an observed column
FileRecords(sc) ==
    {i \in 1..Len(outputMappingFile.mappings) : outputMappingFile.mappings[i].scanned = sc}
LoadedIgnored(sc) == \E i \in FileRecords(sc) : outputMappingFile.mappings[i].ignored
LoadedPairs(sc) ==
    {i \in FileRecords(sc) : ~outputMappingFile.mappings[i].ignored
                                /\ outputMappingFile.mappings[i].target # <<>>}
LoadedMapped(sc) == LoadedPairs(sc) # {}
\* the canonical column of the last pair the file holds for the column
LoadedTarget(sc) == outputMappingFile.mappings[Max(LoadedPairs(sc))].target
Canonical == SeqRange(TargetColumnsFile)
\* the model holds for the column exactly what the load and the auto-mapping
\* rule give it
StartedAsLoadedOrAutoMapped(mm, sc) ==
    /\ LoadedIgnored(sc) => sc \in mm.ignored
    /\ LoadedMapped(sc) => sc \in DOMAIN mm.mappings /\ mm.mappings[sc] = LoadedTarget(sc)
    /\ ~LoadedIgnored(sc) => sc \notin mm.ignored
    /\ ~LoadedMapped(sc) /\ LoadedIgnored(sc) => sc \notin DOMAIN mm.mappings
    /\ ~LoadedMapped(sc) /\ ~LoadedIgnored(sc) =>
          IF sc \in Canonical
          THEN sc \in DOMAIN mm.mappings /\ mm.mappings[sc] = sc
          ELSE sc \notin DOMAIN mm.mappings
\* C11: the start of a session leaves every observed column as follows: a
\* column with a loaded mapping keeps that mapping and a column with a loaded
\* ignore flag keeps the flag, also when its name is a canonical name; a column
\* with neither is mapped to the canonical column of the same name if there is
\* one and is left unmapped otherwise; and a second auto-mapping pass over the
\* started model changes nothing.
C11_AutoMapOnlyUnrecorded ==
    [][StartSession =>
          /\ \A i \in 1..Len(m'.scannedColumns) :
                 StartedAsLoadedOrAutoMapped(m', m'.scannedColumns[i])
          /\ autoMap(m', 1) = m']_vars
\* a session over ID and CustNo that began with a file mapping ID to Amount and
\* has not handled a key yet: ID is still mapped to Amount, not to ID
C11_Witness ==
    /\ tpc = "running"
    /\ m.scannedColumns = <<ID, CustNo>>
    /\ LoadedMapped(ID) /\ LoadedTarget(ID) = Amount
    /\ m = StartModel(<<ID, CustNo>>, CHOOSE u \in UIConfigs : TRUE, outputMappingFile)
    /\ m.mappings[ID] = Amount

(* ------------------------------ C12 ------------------------------------ *)
\* the step is the end of a session that writes the mapping file
Saves == Finish /\ m.state = "Confirm"
\* the column the cursor of stateSelectScanned is on
CursorColumn(mm) == mm.scannedColumns[getCurrentIndex(mm) + 1]
\* a pair the step puts into the mapped set was loaded or auto-mapped at the
\* start, or is the target the operator confirmed for the current column
PairIsLoadedAutoOrConfirmed(sc) ==
    \/ sc \in DOMAIN m.mappings /\ m'.mappings[sc] = m.mappings[sc]
    \/ StartSession /\ LoadedMapped(sc) /\ m'.mappings[sc] = LoadedTarget(sc)
    \/ StartSession /\ ~LoadedMapped(sc) /\ ~LoadedIgnored(sc)
          /\ sc \in Canonical /\ m'.mappings[sc] = sc
    \/ KeyEnter /\ m.state = "SelectTarget" /\ sc = m.currentScanned
          /\ m'.mappings[sc] = m.targetColumns[m.targetPage * m.targetPerPage + m.targetCursor + 1]
\* a flag the step puts into the ignored set was loaded or is the operator's
FlagIsLoadedOrSet(sc) ==
    \/ sc \in m.ignored
    \/ StartSession /\ LoadedIgnored(sc)
    \/ KeyIgnore /\ m.state = "SelectScanned" /\ sc = CursorColumn(m)
\* C12: when a session ends with the mapping file written, every record of
\* the file is an ignore flag of a column in the ignored set or a pair of the
\* mapped set, and no record is for a column with a pending suggestion; and
\* every pair of the mapped set and flag of the ignored set got there by the
\* load, by the auto-mapping, or by the operator (a target confirmed in
\* stateSelectTarget, the ignore key), never from a suggestion message.
C12_OnlyConfirmedPersisted ==
    [][/\ Saves =>
             \A i \in 1..Len(outputMappingFile'.mappings) :
                LET rec == outputMappingFile'.mappings[i]
                IN  /\ IF rec.ignored THEN rec.scanned \in m.ignored
                       ELSE /\ rec.scanned \in DOMAIN m.mappings
                            /\ rec.target = m.mappings[rec.scanned]
                    /\ rec.scanned \notin DOMAIN m.aiSuggestions
       /\ \A sc \in DOMAIN m'.mappings : PairIsLoadedAutoOrConfirmed(sc)
       /\ \A sc \in m'.ignored : FlagIsLoadedOrSet(sc)]_vars
\* a session that ended with the file written while a suggestion for CustAmt
\* was pending and CustNo had a confirmed target
C12_Witness ==
    /\ tpc = "returned"
    /\ m.state = "Confirm"
    /\ m.scannedColumns = <<CustNo, CustAmt>>
    /\ CustAmt \in DOMAIN m.aiSuggestions
    /\ CustNo \in DOMAIN m.mappings
    /\ outputMappingFile.exists
    /\ outputMappingFile.mappings \in SavedConfigs(m)

(* ------------------------------ C13 ------------------------------------ *)
\* C13: the end of a session changes the mapping file only if the program
\* quit on 'y' in stateConfirm; a session that quit on 'n' or 'q' there, or
\* on a key of another state, leaves the file as it was.
C13_WrittenOnlyOnAccept ==
    [][Finish /\ ~(m.state = "Confirm" /\ quitKey = "y")
          => outputMappingFile' = outputMappingFile]_vars

(* ------------------------------ C14 ------------------------------------ *)
\* the canonical column under the cursor of stateSelectTarget
TargetUnderCursor(mm) == mm.targetColumns[mm.targetPage * mm.targetPerPage + mm.targetCursor + 1]
\* the step is the operator confirming a target in stateSelectTarget
ConfirmsTarget ==
    /\ KeyEnter
    /\ m.state = "SelectTarget"
    /\ m.targetPage * m.targetPerPage + m.targetCursor < Len(m.targetColumns)
    /\ tpc' = "running"
\* C14: a target confirmed for the observed column O makes the chosen target
\* O's mapping, whatever O was mapped to before, takes O out of the ignored set
\* and out of the suggestions, leaves the mapping, the ignore flag and the
\* suggestion of every other column as they were, and puts the session in
\* stateSelectScanned.
C14_ConfirmTouchesOneColumn ==
    [][ConfirmsTarget =>
          LET O == m.currentScanned
          IN  /\ O \in DOMAIN m'.mappings /\ m'.mappings[O] = TargetUnderCursor(m)
              /\ O \notin m'.ignored
              /\ O \notin DOMAIN m'.aiSuggestions
              /\ (DOMAIN m'.mappings) \ {O} = (DOMAIN m.mappings) \ {O}
              /\ \A sc \in (DOMAIN m.mappings) \ {O} : m'.mappings[sc] = m.mappings[sc]
              /\ m'.ignored \ {O} = m.ignored \ {O}
              /\ (DOMAIN m'.aiSuggestions) \ {O} = (DOMAIN m.aiSuggestions) \ {O}
              /\ \A sc \in (DOMAIN m.aiSuggestions) \ {O} : m'.aiSuggestions[sc] = m.aiSuggestions[sc]
              /\ m'.state = "SelectScanned"]_vars
\* a session that loaded CustAmt as ignored, in which the operator has
\* confirmed a target for CustAmt while a suggestion for CustNo is pending
C14_Witness ==
    /\ tpc = "running"
    /\ m.state = "SelectScanned"
    /\ LoadedIgnored(CustAmt)
    /\ m.currentScanned = CustAmt
    /\ CustAmt \in DOMAIN m.mappings
    /\ CustAmt \notin m.ignored
    /\ CustNo \in DOMAIN m.aiSuggestions

(* ------------------------------ C15 ------------------------------------ *)
\* the 0-based indexes of the observed columns that are neither mapped nor
\* ignored
UnmappedIndexes(mm) ==
    {i \in 0..(Len(mm.scannedColumns) - 1) : Unmapped(mm, mm.scannedColumns[i + 1])}
\* C15: when a session has started and an observed column is neither mapped
\* nor ignored, the cursor is on the lowest-index such column, index 0
\* included.
C15_StartsOnFirstUnmapped ==
    [][StartSession /\ UnmappedIndexes(m') # {}
          => getCurrentIndex(m') = Least(UnmappedIndexes(m'))]_vars

(* ------------------------------ C16 ------------------------------------ *)
\* the step is the operator giving up the awaited fetch
CancelsFetch == KeyEsc /\ m.state = "AILoading"
\* C16: a suggestion result, a suggestion error, the key 'a' and escape in
\* stateAILoading each leave the mapped set and the ignored set as they were.
C16_SuggestionEventsKeepRecords ==
    [][DeliverAIMappings \/ DeliverAIError \/ KeyAI \/ CancelsFetch
          => m'.mappings = m.mappings /\ m'.ignored = m.ignored]_vars
\* a session with a mapped and an ignored column in which a result has been
\* delivered and a fetch has been requested and cancelled
C16_Witness ==
    /\ tpc = "running"
    /\ cancelled > 0
    /\ DOMAIN m.aiSuggestions # {}
    /\ DOMAIN m.mappings # {}
    /\ m.ignored # {}

(* ------------------------------ C17 ------------------------------------ *)
\* the step is the delivery of the result of a fetch the operator cancelled
DeliversCancelled == DeliverAIMappings /\ cancelled' < cancelled
\* C17: the result of a fetch the operator cancelled with escape is dropped
\* when it is delivered: the suggestions, the mapped set and the ignored set
\* are after the delivery what they were before it.
C17_CancelledResultDiscarded ==
    [][DeliversCancelled =>
          /\ m'.aiSuggestions = m.aiSuggestions
          /\ m'.mappings = m.mappings
          /\ m'.ignored = m.ignored]_vars

(* ------------------------------ C18 ------------------------------------ *)
Observed(mm) == SeqRange(mm.scannedColumns)
HasRecord(mm, sc) == ~Unmapped(mm, sc)
\* the step is the ignore key on the column sc while sc is ignored
UnIgnores(sc) ==
    /\ KeyIgnore
    /\ m.state = "SelectScanned"
    /\ getCurrentIndex(m) < Len(m.scannedColumns)
    /\ sc = CursorColumn(m)
    /\ sc \in m.ignored
\* C18: an observed column that is mapped or ignored is mapped or ignored
\* after every step of the session.
C18_RecordNeverLost ==
    [][\A sc \in Observed(m) : HasRecord(m, sc) => HasRecord(m', sc)]_vars
\* C18, amended: an observed column that is mapped or ignored is mapped or
\* ignored after every step of the session, except the step on which the
\* operator presses the ignore key on it while it is ignored; a mapped
\* column is never left without a record by one step.
C18_RecordLostOnlyByUnIgnore ==
    [][\A sc \in Observed(m) :
          HasRecord(m, sc) /\ ~HasRecord(m', sc) => UnIgnores(sc)]_vars
\* a session that loaded CustAmt as ignored and in which CustAmt now has
\* neither a mapping nor an ignore flag
C18_Witness ==
    /\ tpc = "running"
    /\ CustAmt \in Observed(m)
    /\ LoadedIgnored(CustAmt)
    /\ Unmapped(m, CustAmt)

(* ------------------------------ C19 ------------------------------------ *)
\* the status of a column: ignored, mapped to a canonical column, or unmapped
Status(mm, sc) ==
    IF sc \in mm.ignored THEN <<"ignored">>
    ELSE IF sc \in DOMAIN mm.mappings THEN <<"mapped", mm.mappings[sc]>>
    ELSE <<"unmapped">>
\* the model after the ignore key has been handled twice in a row
IgnoredTwice(mm) == UpdateKey(UpdateKey(mm, "i").m, "i").m
\* C19: in stateSelectScanned, with the cursor on an observed column, two
\* presses of the ignore key one after the other leave the column with the
\* status it had: mapped to the same canonical column, ignored, or unmapped.
C19_IgnoreTwiceRestores ==
    (tpc = "running" /\ m.state = "SelectScanned" /\ getCurrentIndex(m) < Len(m.scannedColumns))
        => Status(IgnoredTwice(m), CursorColumn(m)) = Status(m, CursorColumn(m))

(* ------------------------------ C20 ------------------------------------ *)
\* the sheets of a workbook
SheetsOf(wb) == {wb.sheets[n] : n \in DOMAIN wb.sheets}
\* the sheets a state brings: at the start of a run those of the input file
\* and of the target file, afterwards the sheet the editor is writing (the
\* files saved are copies of the input file and of the editor's workbook)
StateSheets ==
    IF pc = "FormatFile" THEN SheetsOf(input0) \cup SheetsOf(disk.target)
    ELSE {f.inputEditor.sheets[n] : n \in {f.inputSheet} \cap DOMAIN f.inputEditor.sheets}
\* row r has text other than white space in column c
NonBlankAt(rows, r, c) ==
    /\ r \in 1..Len(rows)
    /\ c \in 1..Len(rows[r])
    /\ \E k \in 1..Len(rows[r][c]) : rows[r][c][k] # " "
\* the columns that hold non-blank text in some row
DataColumns(rows) == {c \in 1..MaxCols : \E r \in 1..Len(rows) : NonBlankAt(rows, r, c)}
\* the first row with non-blank text in the rightmost column that has any
FirstRowOfRightmost(rows) ==
    IF DataColumns(rows) = {} THEN 1
    ELSE LET C == CHOOSE c \in DataColumns(rows) : \A d \in DataColumns(rows) : d <= c
         IN  CHOOSE r \in 1..Len(rows) :
                /\ NonBlankAt(rows, r, C)
                /\ \A q \in 1..(r - 1) : ~NonBlankAt(rows, q, C)
\* C20: for every sheet, DetectHeaderRow is the 1-based index of the first
\* row with non-blank text in the rightmost column that holds non-blank text
\* in any row, and is 1 for a sheet with no rows or with no non-blank cell.
C20_HeaderRowIsFirstOfRightmost ==
    \A sh \in StateSheets :
        LET rows == GetRows(sh)
        IN  DetectHeaderRow(rows) = FirstRowOfRightmost(rows)
\* a rewrite that has read the headers of a sheet whose first row holds a
\* title and a cell of white space in the rightmost column, and took the
\* second row for the header row; the editor's sheet has by then a row
\* inserted below the header
C20_Witness ==
    /\ pc = "return"
    /\ f.inputSheet = "Main"
    /\ Len(GetRows(input0.sheets["Main"])) >= 2
    /\ GetRows(input0.sheets["Main"])[1] = <<Title, Space>>
    /\ f.inputHeaders = <<CustNo, CustAmt>>
    /\ f.inserted
    /\ DetectHeaderRow(GetRows(input0.sheets["Main"])) = 2

(* ------------------------------ C21 ------------------------------------ *)
\* C21: a cleaned header is a fixed point of the cleaning: for every header
\* text x, cleanColumnName(cleanColumnName(x)) = cleanColumnName(x).
C21_CleanIsIdempotent ==
    libPc = "cleaned" => cleanColumnName(libRes) = libRes
\* a header with one bracket pair inside another has been cleaned: the match
\* runs from the first '<' to the first '>', and what is left holds no tag
C21_Witness ==
    /\ libPc = "cleaned"
    /\ libArg = <<"<", "<", "a", ">", "a", ">">>
    /\ libRes = <<"a", ">">>


\* C22: LoadFromFile applied to the file written by SaveToFile returns the
\* saved list of records: the same records in the same order, every field of
\* every record unchanged.
C22_RoundTripLossless ==
    libPc = "loaded" => libRes = libArg

(* the number a text of sign, digits and point denotes: mant / 10^scale *)
SignLen(t) == IF t # <<>> /\ t[1] \in {"+", "-"} THEN 1 ELSE 0
Body(t) == SubSeq(t, SignLen(t) + 1, Len(t))
Points(t) == {i \in 1..Len(t) : t[i] = "."}
IsIntegerText(t) ==
    /\ Body(t) # <<>>
    /\ \A i \in 1..Len(Body(t)) : IsDigit(Body(t)[i])
IsFloatText(t) ==
    /\ Cardinality(Points(Body(t))) <= 1
    /\ \A i \in 1..Len(Body(t)) : IsDigit(Body(t)[i]) \/ Body(t)[i] = "."
    /\ \E i \in 1..Len(Body(t)) : IsDigit(Body(t)[i])
RECURSIVE Mantissa(_, _)
Mantissa(b, acc) ==
    IF b = <<>> THEN acc
    ELSE IF Head(b) = "." THEN Mantissa(Tail(b), acc)
    ELSE Mantissa(Tail(b), 10 * acc + DigitVal(Head(b)))
Scale(t) == IF Points(Body(t)) = {} THEN 0 ELSE Len(Body(t)) - Max(Points(Body(t)))
RECURSIVE Pow10(_)
Pow10(n) == IF n = 0 THEN 1 ELSE 10 * Pow10(n - 1)
SameNumber(a, b) ==
    /\ Mantissa(Body(a), 0) * Pow10(Scale(b)) = Mantissa(Body(b), 0) * Pow10(Scale(a))
    /\ Mantissa(Body(a), 0) # 0 => ((a[1] = "-") <=> (b[1] = "-"))

\* C23: a copied value is written as an integer when its trimmed text is a
\* base-10 integer, otherwise as a floating-point number when it is one,
\* otherwise as the original text; the two-decimal format is applied to the
\* cell exactly when a floating-point number was written.
C23_TypedByParse ==
    libPc = "set" =>
        LET t == TrimSpace(libArg.value)
        IN  IF IsIntegerText(t)
            THEN /\ libRes.kind = "int"
                 /\ IsIntegerText(libRes.v) /\ SameNumber(libRes.v, t)
                 /\ libRes.numFmt = libArg.cell.numFmt
            ELSE IF IsFloatText(t)
            THEN /\ libRes.kind = "float"
                 /\ IsFloatText(libRes.v) /\ SameNumber(libRes.v, t)
                 /\ libRes.numFmt = FloatNumFmt
            ELSE /\ libRes.kind = "str"
                 /\ libRes.v = libArg.value
                 /\ libRes.numFmt = libArg.cell.numFmt
C23_Witness ==
    /\ libPc = "set"
    /\ libArg = [cell |-> BlankCell, value |-> <<" ", "1", ".", "0">>]
    /\ libRes = [v |-> <<"1">>, f |-> <<>>, kind |-> "float", numFmt |-> FloatNumFmt]

\* C24: the rows a rewrite copies as data rows are the input rows strictly
\* below the detected input header row, so after the rewrite the detected
\* header row holds, in every target column, the target's header text (it is
\* the row the header text is written into, and no data is copied into it);
\* stated for the rewrites that saved their output.
C24_HeaderRowHoldsTargetHeaders ==
    (Rewritten /\ f.err = "nil" /\ ~f.inserted) =>
        \A i \in TargetColumns : OutCell(InputHeaderRow, i).v = TargetHeaderAt(i)

(* ------------------------------ C25 ------------------------------------ *)
\* the observed columns other than the one at index idx that are neither
\* mapped nor ignored, by 0-based index
OtherUnmapped(mm, idx) ==
    {i \in 0..(Len(mm.scannedColumns) - 1) :
        i # idx /\ Unmapped(mm, mm.scannedColumns[i + 1])}
\* the cursor went from its place in mm to where the search is to put it
MovedToNextUnmapped(mm, after) ==
    LET idx == getCurrentIndex(mm)
        others == OtherUnmapped(after, idx)
        later == {i \in others : i > idx}
    IN  IF later # {} THEN getCurrentIndex(after) = Least(later)
        ELSE IF others # {} THEN getCurrentIndex(after) = Least(others)
        ELSE <<after.page, after.row, after.col>> = <<mm.page, mm.row, mm.col>>
\* C25: the 'n' key and a target confirmation move the cursor to the
\* lowest-index column after the current index that is neither mapped nor
\* ignored, if there is none to the lowest-index such column before it, and
\* leave page, row and column as they are if there is no other such column;
\* the session goes on.
C25_MovesToNextUnmapped ==
    [][((KeyNext /\ m.state = "SelectScanned") \/ (KeyEnter /\ m.state = "SelectTarget"
            /\ m.targetPage * m.targetPerPage + m.targetCursor < Len(m.targetColumns)))
        => tpc' = "running" /\ MovedToNextUnmapped(m, m')]_vars

(* ------------------------------ C26 ------------------------------------ *)
\* the observed columns that are neither mapped, nor ignored, nor carrying an
\* unconfirmed suggestion
Undecided(mm) ==
    {sc \in SeqRange(mm.scannedColumns) :
        /\ sc \notin DOMAIN mm.mappings
        /\ sc \notin mm.ignored
        /\ sc \notin DOMAIN mm.aiSuggestions}
\* C26: in stateConfirm the four counts of the summary (mapped, ignored,
\* unconfirmed suggestions, unmapped) are not negative and sum to the number
\* of observed columns, and the unmapped count is the number of observed
\* columns that are neither mapped, nor ignored, nor carrying a suggestion.
C26_ConfirmCountsPartitionObserved ==
    (tpc = "running" /\ m.state = "Confirm") =>
        LET v == viewConfirm(m)
        IN  /\ v.Mapped >= 0 /\ v.Ignored >= 0 /\ v.AISuggestions >= 0 /\ v.Unmapped >= 0
            /\ v.Mapped + v.Ignored + v.AISuggestions + v.Unmapped
                    = Cardinality(SeqRange(m.scannedColumns))
            /\ v.Unmapped = Cardinality(Undecided(m))

(* ------------------------------ C27 ------------------------------------ *)
\* the observed columns that non-ignored records of the mapping set map to h
ObservedFor(h) == {disk.mapping[i].scanned : i \in RecordsFor(h)}
\* the soft errors a rewrite can record for the target column h
SoftErrorsOf(h) ==
    {<<"in", ".xlsx", ":", f.inputSheet, ":: no mapping for '">> \o h \o <<"'">>}
    \cup {<<"in", ".xlsx", ":", f.inputSheet, ":: mapped column '">> \o o
               \o <<"' not found in input">> : o \in ObservedFor(h)}
\* C27: when a non-ignored record maps an observed column that is in the input
\* sheet's header row to the target column T, the rewrite records no soft
\* error for T, whatever other records for T the mapping set holds and in
\* whatever order.
C27_PresentRecordGivesNoError ==
    Rewritten =>
        \A i \in TargetColumns :
            (ObservedFor(TargetHeaderAt(i)) \cap SeqRange(InputHeaderTexts) # {}) =>
                SeqRange(f.errorMessages) \cap SoftErrorsOf(TargetHeaderAt(i)) = {}

(* ------------------------------ C28 ------------------------------------ *)
\* C28: a suggestion result or a suggestion error delivered while the session
\* is in stateSelectTarget or in stateConfirm does not change the state of the
\* session.
C28_DeliveryKeepsState ==
    [][((DeliverAIMappings \/ DeliverAIError) /\ m.state \in {"SelectTarget", "Confirm"})
        => m'.state = m.state]_vars

(* ------------------------------ C29 ------------------------------------ *)
\* C29: at most one suggestion fetch is in flight at any time.
C29_OneFetchInFlight ==
    fetches <= 1

(* ------------------------------ C30 ------------------------------------ *)
\* C30: FormatFile returns an error when the rewrite of at least one sheet of
\* the input file failed, and nil only when every sheet was written to its
\* output path.
C30_FailedSheetFailsFile ==
    pc = "done" =>
        /\ (\E i \in 1..Len(calls) : calls[i].err # "nil") => ret # "nil"
        /\ ret = "nil" =>
                \A i \in 1..Len(calls) : calls[i].outputFilePath \in DOMAIN disk.results
====
